---- MODULE Spec2Model ----
(***************************************************************************)
(* DevAegis: the pre-push pipeline of MainPipeline.main() and its stages   *)
(* (MavenBuilder, SnykAnalyser, MavenDependencyAnalyzer, GitChecker), and  *)
(* the SonarAnalyser quality gate.                                         *)
(*                                                                         *)
(* Text that the code takes apart or puts together (versions, branch       *)
(* names, porcelain status lines) is a sequence of one-character strings;  *)
(* text that is only compared or passed on is a TLA+ string.               *)
(***************************************************************************)
EXTENDS Integers, Sequences, FiniteSets, TLC

VARIABLES
    snyk_data,                  \* the parsed JSON handed to _process_snyk_results
    vulnerabilities_to_report,  \* SnykAnalyser: rows handed to _generate_report
    quality_gate_failed,        \* SnykAnalyser: the gate flag
    failure_reasons,            \* SnykAnalyser: the reasons in append order
    printed_reasons,            \* SnykAnalyser: the reason lines printed
    snykReport,                 \* snyk-report.md: <<>> or <<the document written>>
    snykPc,                     \* "idle" | "parsed" | "processed"
    jacoco,                     \* target/site/jacoco/jacoco.xml as the parser finds it
    api,                        \* the analysis server's answer to the measures query
    sonarPc,                    \* "idle" | "start" | "scanned" | "done" | "exited"
    sonarExit,                  \* SonarAnalyser run: exit status, NotExited while running
    sonarScanner,               \* "none" | "notfound" | "failed" | "success"
    sonarVerdict,               \* "none" | "PASSED" | "FAILED"
    sonarReport,                \* sonar-report.md: <<>> or <<its content>>
    sonarPrinted,               \* the reason lines printed under the FAILED banner
    tools,                      \* the executables found on PATH
    repo,                       \* the git repository the run starts in
    pc,                         \* where main() is: the stage or step to run next
    exitStatus,                 \* the process's exit status, NotExited while running
    stages,                     \* the stages started so far, in order
    reported,                   \* the stages that reported a failure
    fatal,                      \* the fatal conditions met so far
    buildLog,                   \* build.log: <<>> or <<exit code of the build logged>>
    mvnOutput,                  \* the lines `mvn dependency:tree` printed
    depTree,                    \* what get_project_dependency_tree returned: <<>> before
    snykRun,                    \* `snyk test --json` as run: <<>> or <<exit code, parsing>>
    prompts,                    \* the questions asked of the operator, with answers
    gitOps,                     \* the git commands run, in order, with their outcome
    vcs                         \* GitChecker's fields and stage_files' locals

snykVars == <<snyk_data, vulnerabilities_to_report, quality_gate_failed,
              failure_reasons, printed_reasons, snykReport, snykPc>>

sonarVars == <<jacoco, api, sonarPc, sonarExit, sonarScanner, sonarVerdict,
               sonarReport, sonarPrinted>>

pipeVars == <<tools, repo, pc, exitStatus, stages, reported, fatal, buildLog,
              mvnOutput, depTree, snykRun, prompts, gitOps, vcs>>

vars == <<snykVars, sonarVars, pipeVars>>

\* ------------------------------------------------------------------ bounds

\* Most vulnerabilities in one scan, over all its objects.
MaxVulns == 2

\* Most scanned objects in a scan given as a list.
MaxProjects == 2

\* Most blocker, and most critical, violations the server reports.
MaxDefects == 2

\* Most missed, and most covered, instructions of a small coverage counter.
MaxInstructions == 5

\* Most entries of a `git status --porcelain` output.
MaxFiles == 2

\* The exit codes of the build tool and of the scanner run from 0 to
\* MaxReturnCode.
MaxReturnCode == 3

\* Console outputs hold at most MaxLines lines.
MaxLines == 4

\* ------------------------------------------------------------ text helpers

NA == <<"N", "A">>

V11 == <<"1", ".", "1">>

V12 == <<"1", ".", "2">>

CommaSpace == <<",", " ">>

\* str.join: the items with sep between each two.
RECURSIVE Join(_, _)
Join(sep, items) ==
    IF items = <<>> THEN <<>>
    ELSE IF Len(items) = 1 THEN items[1]
    ELSE items[1] \o sep \o Join(sep, Tail(items))

\* The first index at which sub occurs in s, 0 when it does not.
FindSub(s, sub) ==
    LET hits == {i \in 1..(Len(s) - Len(sub) + 1) : SubSeq(s, i, i + Len(sub) - 1) = sub}
    IN  IF hits = {} THEN 0 ELSE CHOOSE i \in hits : \A j \in hits : i <= j

\* sub in s
Contains(s, sub) == FindSub(s, sub) # 0

Whitespace == {" ", "\n", "\t"}

\* str.lstrip()
RECURSIVE LStrip(_)
LStrip(s) == IF s # <<>> /\ Head(s) \in Whitespace THEN LStrip(Tail(s)) ELSE s

\* str.rstrip()
RECURSIVE RStrip(_)
RStrip(s) ==
    IF s # <<>> /\ s[Len(s)] \in Whitespace THEN RStrip(SubSeq(s, 1, Len(s) - 1)) ELSE s

\* str.split(sep, 1): one piece when sep does not occur, else two.
SplitOnce(s, sep) ==
    LET i == FindSub(s, sep)
    IN  IF i = 0 THEN <<s>>
        ELSE <<SubSeq(s, 1, i - 1), SubSeq(s, i + Len(sep), Len(s))>>

\* str.split(sep): every piece.
RECURSIVE Split(_, _)
Split(s, sep) ==
    LET i == FindSub(s, sep)
    IN  IF i = 0 THEN <<s>>
        ELSE <<SubSeq(s, 1, i - 1)>> \o Split(SubSeq(s, i + Len(sep), Len(s)), sep)

\* str.lower() on the letters the answers are made of.
LowerChar(c) ==
    CASE c = "Y" -> "y" [] c = "N" -> "n" [] c = "A" -> "a" [] c = "Q" -> "q"
      [] c = "E" -> "e" [] c = "S" -> "s" [] OTHER -> c

Lower(s) == [i \in DOMAIN s |-> LowerChar(s[i])]


\* dict.get(key, default)
GetMutant(d, key, default) == default

Get(d, key, default) == IF key \in DOMAIN d THEN d[key] ELSE default

\* dict.get(key): None when the key is missing; None is falsy, as is [].
Truthy(d, key) == key \in DOMAIN d /\ d[key] # <<>>

SeqsUpTo(S, n) == UNION {[1..k -> S] : k \in 0..n}

RECURSIVE SeqToSet(_)
SeqToSet(s) == IF s = <<>> THEN {} ELSE {Head(s)} \cup SeqToSet(Tail(s))

\* ---------------------------------------------- SnykAnalyser: the gate

\* Package names in the order Python's string comparison gives them.
PackageOrder == <<"N/A", "libbar", "libfoo">>

PackageRank(p) == CHOOSE i \in 1..Len(PackageOrder) : PackageOrder[i] = p

CriticalPrefix == "- CRITICAL vulnerability found in '"

HighPrefix == "- HIGH vulnerability with a mature exploit and available fix found in '"

ReasonSuffix == "'."

\* f"- CRITICAL vulnerability found in '{package}'."
CriticalReason(package) == <<CriticalPrefix, package, ReasonSuffix>>

\* f"- HIGH vulnerability with a mature exploit and available fix found in '{package}'."
HighReason(package) == <<HighPrefix, package, ReasonSuffix>>

\* String order of two reason lines: "- C..." sorts before "- H...", then by
\* the package name.
ReasonLess(a, b) ==
    \/ a[1] = CriticalPrefix /\ b[1] = HighPrefix
    \/ a[1] = b[1] /\ PackageRank(a[2]) < PackageRank(b[2])

\* sorted(list(S)) for a set of reason lines
RECURSIVE SortedReasons(_)
SortedReasons(S) ==
    IF S = {} THEN <<>>
    ELSE LET m == CHOOSE x \in S : \A y \in S \ {x} : ReasonLess(x, y)
         IN  <<m>> \o SortedReasons(S \ {m})

\* fixed_in = ', '.join(vuln.get('fixedIn', [])) if vuln.get('fixedIn') else 'NA'
FixedInMutant(vuln) ==
    IF "fixedIn" \in DOMAIN vuln THEN Join(CommaSpace, vuln.fixedIn) ELSE NA

FixedIn(vuln) ==
    IF Truthy(vuln, "fixedIn") THEN Join(CommaSpace, Get(vuln, "fixedIn", <<>>)) ELSE NA

\* Condition 1: severity == 'critical'
IsCriticalMutant(severity) == severity = "high"

IsCritical(severity) == severity = "critical"

\* Condition 2: severity == 'high' and fixed_in != 'NA' and exploit_maturity == 'Mature'
IsHighFixableMatureMutant(severity, fixed_in, exploit_maturity) ==
    severity = "high" /\ fixed_in # NA

IsHighFixableMature(severity, fixed_in, exploit_maturity) ==
    severity = "high" /\ fixed_in # NA /\ exploit_maturity = "Mature"

\* project.get('ok', True) is False and 'vulnerabilities' in project
ProjectSelectedMutant(project) ==
    Get(project, "ok", FALSE) = FALSE /\ "vulnerabilities" \in DOMAIN project

ProjectSelected(project) ==
    Get(project, "ok", TRUE) = FALSE /\ "vulnerabilities" \in DOMAIN project

\* The flag after one vulnerability: set by either condition, never cleared.
GateFlagMutant(before, crit, high) == crit \/ high

GateFlag(before, crit, high) == before \/ crit \/ high

\* The body of the inner loop: one row appended, the two conditions checked.
VulnStep(acc, vuln) ==
    LET package == Get(vuln, "packageName", "N/A")
        severity == Get(vuln, "severity", "N/A")
        version == Get(vuln, "version", "N/A")
        fixed_in == FixedIn(vuln)
        url == Get(vuln, "url", "#")
        exploit_maturity == Get(vuln, "exploit", "Not Available")
        crit == IsCritical(severity)
        high == IsHighFixableMature(severity, fixed_in, exploit_maturity)
    IN  [report |-> Append(acc.report,
                           [package |-> package, severity |-> severity,
                            version |-> version, fixed_in |-> fixed_in,
                            url |-> url]),
         failed |-> GateFlag(acc.failed, crit, high),
         reasons |-> acc.reasons
                     \o (IF crit THEN <<CriticalReason(package)>> ELSE <<>>)
                     \o (IF high THEN <<HighReason(package)>> ELSE <<>>)]

RECURSIVE VulnLoop(_, _)
VulnLoop(acc, vulns) ==
    IF vulns = <<>> THEN acc ELSE VulnLoop(VulnStep(acc, Head(vulns)), Tail(vulns))

RECURSIVE ProjectLoop(_, _)
ProjectLoop(acc, projects) ==
    IF projects = <<>> THEN acc
    ELSE ProjectLoop(IF ProjectSelected(Head(projects))
                     THEN VulnLoop(acc, Head(projects).vulnerabilities)
                     ELSE acc,
                     Tail(projects))

\* snyk_results = snyk_data if isinstance(snyk_data, list) else [snyk_data]
\* The parsed JSON carries its Python type: [isList, json].
IsList(data) == data.isList

SnykResults(data) == IF IsList(data) THEN data.json ELSE <<data.json>>

\* The two loops of _process_snyk_results, from the three empty accumulators.
ParseAndGate(data) ==
    ProjectLoop([report |-> <<>>, failed |-> FALSE, reasons |-> <<>>],
                SnykResults(data))

\* for reason in sorted(list(set(failure_reasons))): print(reason)
PrintedReasonsMutant(failed, reasons) == IF failed THEN reasons ELSE <<>>

PrintedReasons(failed, reasons) ==
    IF failed THEN SortedReasons(SeqToSet(reasons)) ELSE <<>>

\* ------------------------------------------------ inputs of the gate model

\* The vulnerability entries a scan is drawn from: each gate condition met and
\* missed in each of its conjuncts, in two packages.
ScanVulns ==
    { [packageName |-> "libfoo", severity |-> "critical", version |-> "1.0",
       fixedIn |-> <<V11>>, url |-> "http://x", exploit |-> "Mature"],
      [packageName |-> "libbar", severity |-> "critical"],
      [packageName |-> "libfoo", severity |-> "high", fixedIn |-> <<V11, V12>>,
       exploit |-> "Mature"],
      [packageName |-> "libfoo", severity |-> "high", exploit |-> "Mature"],
      [packageName |-> "libbar", severity |-> "high", fixedIn |-> <<V11>>,
       exploit |-> "Proof of Concept"],
      [packageName |-> "libbar", severity |-> "medium", fixedIn |-> <<V12>>,
       exploit |-> "Mature"] }

ScanPackages == {"libfoo", "libbar"}

\* A scanned object: ok true, false or missing; vulnerabilities a list or missing.
MakeProject(okv, hasVulns, vulns) ==
    LET keys == (IF okv = "absent" THEN {} ELSE {"ok"})
                \cup (IF hasVulns THEN {"vulnerabilities"} ELSE {})
    IN  [k \in keys |-> IF k = "ok" THEN (okv = "true") ELSE vulns]

OkValues == {"true", "false", "absent"}

\* The shape of a list of k scanned objects: for each its ok value, whether it
\* has a vulnerabilities array, and how many entries the array holds.
Shapes(k) == [1..k -> OkValues \X BOOLEAN \X (0..MaxVulns)]

RECURSIVE ShapeTotal(_)
ShapeTotal(shape) ==
    IF shape = <<>> THEN 0 ELSE Head(shape)[3] + ShapeTotal(Tail(shape))

ValidShape(shape) ==
    /\ ShapeTotal(shape) <= MaxVulns
    /\ \A i \in DOMAIN shape : ~shape[i][2] => shape[i][3] = 0

\* The scanned objects of a shape, their arrays filled from flat in order.
BuildProjects(shape, flat) ==
    [i \in DOMAIN shape |->
        LET before == ShapeTotal(SubSeq(shape, 1, i - 1))
        IN  MakeProject(shape[i][1], shape[i][2],
                        SubSeq(flat, before + 1, before + shape[i][3]))]

\* json.loads of the scanner's output: a list of objects ...
JsonList(projects) == [isList |-> TRUE, json |-> projects]

\* ... or a single object.
JsonObject(project) == [isList |-> FALSE, json |-> project]

\* ------------------------------------------------------------ Snyk actions

\* str.title() on the severities a scan carries.
Title(severity) ==
    CASE severity = "critical" -> "Critical"
      [] severity = "high" -> "High"
      [] severity = "medium" -> "Medium"
      [] OTHER -> severity

\* One table row: package, title-cased severity, version, fixed-in, link target.
ReportRow(vuln) ==
    [package |-> vuln.package, severity |-> Title(vuln.severity),
     version |-> vuln.version, fixed_in |-> vuln.fixed_in, link |-> vuln.url]

\* _generate_report: the document written over snyk-report.md. Without
\* vulnerabilities it is the title and the congratulation; otherwise the title,
\* the count, the table header and one row per vulnerability.
GenerateReportMutant(vulnerabilities) ==
    <<[body |-> "table", found |-> Len(vulnerabilities),
       rows |-> [i \in 1..Len(vulnerabilities) |-> ReportRow(vulnerabilities[i])]]>>

GenerateNoReport(vulnerabilities) == <<>>

GenerateReport(vulnerabilities) ==
    IF vulnerabilities = <<>>
    THEN <<[body |-> "congratulations", found |-> 0, rows |-> <<>>]>>
    ELSE <<[body |-> "table", found |-> Len(vulnerabilities),
            rows |-> [i \in 1..Len(vulnerabilities) |-> ReportRow(vulnerabilities[i])]]>>

\* The assignments of _process_snyk_results(data): the rows, the flag, the
\* reasons, the report file, the lines printed.
SnykProcessed(data) ==
    LET r == ParseAndGate(data)
    IN  /\ snyk_data' = data
        /\ vulnerabilities_to_report' = r.report
        /\ quality_gate_failed' = r.failed
        /\ failure_reasons' = r.reasons
        /\ snykReport' = GenerateReport(r.report)
        /\ printed_reasons' = PrintedReasons(r.failed, r.reasons)
        /\ snykPc' = "processed"

\* The scan with every entry's exploit maturity reported as e.
WithExploit(data, e) ==
    LET entry(v) == [k \in DOMAIN v \cup {"exploit"} |-> IF k = "exploit" THEN e ELSE v[k]]
        project(p) ==
            IF "vulnerabilities" \in DOMAIN p
            THEN [k \in DOMAIN p |->
                    IF k = "vulnerabilities"
                    THEN [i \in DOMAIN p.vulnerabilities |-> entry(p.vulnerabilities[i])]
                    ELSE p[k]]
            ELSE p
    IN  IF data.isList
        THEN JsonList([i \in DOMAIN data.json |-> project(data.json[i])])
        ELSE JsonObject(project(data.json))

\* _process_snyk_results run once more, on a scan of the same vulnerabilities
\* whose exploit maturity has changed.
SnykRunAgain ==
    /\ snykPc = "processed"
    /\ \E e \in {"Mature", "Proof of Concept"} : SnykProcessed(WithExploit(snyk_data, e))
    /\ UNCHANGED <<sonarVars, pipeVars>>

\* _process_snyk_results(snyk_data) on its own.
ProcessSnykResults ==
    /\ snykPc = "parsed"
    /\ SnykProcessed(snyk_data)
    /\ UNCHANGED <<sonarVars, pipeVars>>

\* _process_snyk_results about to run on a scan of at most n objects.
SnykStartUpTo(n) ==
    /\ \E k \in 0..n : \E shape \in Shapes(k) :
          /\ ValidShape(shape)
          /\ \E flat \in [1..ShapeTotal(shape) -> ScanVulns] :
                \/ snyk_data = JsonList(BuildProjects(shape, flat))
                \/ k = 1 /\ snyk_data = JsonObject(BuildProjects(shape, flat)[1])
    /\ vulnerabilities_to_report = <<>>
    /\ quality_gate_failed = FALSE
    /\ failure_reasons = <<>>
    /\ printed_reasons = <<>>
    /\ snykReport = <<>>
    /\ snykPc = "parsed"

SnykStart == SnykStartUpTo(MaxProjects)

\* No SnykAnalyser in the run.
SnykIdle ==
    /\ snyk_data = JsonList(<<>>)
    /\ vulnerabilities_to_report = <<>>
    /\ quality_gate_failed = FALSE
    /\ failure_reasons = <<>>
    /\ printed_reasons = <<>>
    /\ snykReport = <<>>
    /\ snykPc = "idle"

\* ------------------------------------------------------------ SonarAnalyser

NotExited == -1

\* Threshold of the coverage clause, in percent.
CoverageThreshold == 80

\* A coverage value is the exact ratio num/den percent.
ZeroCoverage == [num |-> 0, den |-> 1]

\* coverage = (covered / total) * 100 if total > 0 else 0.0
CounterCoverage(missed, covered) ==
    LET total == missed + covered
    IN  IF total > 0 THEN [num |-> covered * 100, den |-> total] ELSE ZeroCoverage

\* _parse_jacoco_report: the INSTRUCTION counter's ratio; 0.0 when the file is
\* missing, does not parse, or has no such counter.
ParseJacocoReportMutant(doc) ==
    IF doc.kind = "counter" THEN CounterCoverage(doc.missed, doc.covered)
    ELSE [num |-> 100, den |-> 1]

ParseJacocoReport(doc) ==
    IF doc.kind = "counter" THEN CounterCoverage(doc.missed, doc.covered)
    ELSE ZeroCoverage

\* _fetch_bug_counts: (None, None) on a request or format error, else the two
\* measures, 0 for a key the response lacks.
FetchBugCountsMutant(answer) ==
    [none |-> FALSE,
     blocker |-> IF answer.kind = "ok" THEN Get(answer.measures, "blocker_violations", 0) ELSE 0,
     critical |-> IF answer.kind = "ok" THEN Get(answer.measures, "critical_violations", 0) ELSE 0]

FetchBugCounts(answer) ==
    IF answer.kind # "ok" THEN [none |-> TRUE, blocker |-> 0, critical |-> 0]
    ELSE [none |-> FALSE,
          blocker |-> Get(answer.measures, "blocker_violations", 0),
          critical |-> Get(answer.measures, "critical_violations", 0)]

\* coverage < 80.0
BelowThresholdMutant(coverage) == coverage.num <= CoverageThreshold * coverage.den

BelowThreshold(coverage) == coverage.num < CoverageThreshold * coverage.den

\* failed = (blocker_bugs > 0) or (critical_bugs > 0) or (coverage < 80.0)
GateFailed(blocker_bugs, critical_bugs, coverage) ==
    (blocker_bugs > 0) \/ (critical_bugs > 0) \/ BelowThreshold(coverage)

\* The lines printed under the FAILED banner: one for the two defect counts
\* together, one for coverage.
SonarReasonsMutant(blocker_bugs, critical_bugs, coverage) ==
    (IF blocker_bugs > 0
     THEN <<[line |-> "bugs", blocker |-> blocker_bugs, critical |-> critical_bugs]>>
     ELSE <<>>)
    \o (IF BelowThreshold(coverage)
        THEN <<[line |-> "coverage", coverage |-> coverage]>>
        ELSE <<>>)

SonarReasons(blocker_bugs, critical_bugs, coverage) ==
    (IF blocker_bugs > 0 \/ critical_bugs > 0
     THEN <<[line |-> "bugs", blocker |-> blocker_bugs, critical |-> critical_bugs]>>
     ELSE <<>>)
    \o (IF BelowThreshold(coverage)
        THEN <<[line |-> "coverage", coverage |-> coverage]>>
        ELSE <<>>)

\* sonar-scanner.log is written whenever the scanner could be run.
SonarLogWritten == sonarScanner \in {"failed", "success"}

\* analyze() up to the call of _process_analysis_results: the scanner runs, its
\* log is written, and the run ends unless stdout has "EXECUTION SUCCESS".
SonarScan ==
    /\ sonarPc = "start"
    /\ \E outcome \in {"notfound", "failed", "success"} :
          /\ sonarScanner' = outcome
          /\ IF outcome = "success"
             THEN sonarPc' = "scanned" /\ sonarExit' = sonarExit
             ELSE sonarPc' = "exited" /\ sonarExit' = 1
    /\ UNCHANGED <<jacoco, api, sonarVerdict, sonarReport, sonarPrinted, snykVars, pipeVars>>

\* f"{coverage:.2f}": the value to the nearest hundredth, in hundredths.
TwoDecimalsMutant(coverage) == coverage.num

TwoDecimals(coverage) ==
    (2 * 100 * coverage.num + coverage.den) \div (2 * coverage.den)

\* The assignments of _process_analysis_results on a coverage document and a
\* server answer: the verdict, the report file, the lines printed, the exit.
SonarProcessed(doc, answer) ==
    LET coverage == ParseJacocoReport(doc)
        bugs == FetchBugCounts(answer)
        failed == GateFailed(bugs.blocker, bugs.critical, coverage)
    IN  IF bugs.none
        THEN /\ sonarPc' = "exited"
             /\ sonarExit' = 1
             /\ UNCHANGED <<sonarVerdict, sonarReport, sonarPrinted>>
        ELSE /\ sonarVerdict' = (IF failed THEN "FAILED" ELSE "PASSED")
             /\ sonarReport' = <<[status |-> IF failed THEN "FAILED" ELSE "PASSED",
                                   blocker |-> bugs.blocker,
                                   critical |-> bugs.critical,
                                   coverage |-> TwoDecimals(coverage)]>>
             /\ sonarPrinted' = (IF failed
                                 THEN SonarReasons(bugs.blocker, bugs.critical, coverage)
                                 ELSE <<>>)
             /\ sonarPc' = (IF failed THEN "exited" ELSE "done")
             /\ sonarExit' = (IF failed THEN 1 ELSE 0)

\* _process_analysis_results, and the return through analyze() and main().
SonarProcessResults ==
    /\ sonarPc = "scanned"
    /\ SonarProcessed(jacoco, api)
    /\ UNCHANGED <<jacoco, api, sonarScanner, snykVars, pipeVars>>

\* The counter values tried: small ones, and the pair that makes 79.99 %.
CounterValues == (0..MaxInstructions) \cup {2001, 7999}

JacocoDocs ==
    {[kind |-> k, missed |-> 0, covered |-> 0] : k \in {"missing", "malformed", "nocounter"}}
    \cup {[kind |-> "counter", missed |-> m, covered |-> c] :
            m \in CounterValues, c \in CounterValues}

MetricKeys == {"blocker_violations", "critical_violations"}

ApiAnswers ==
    {[kind |-> k, measures |-> <<>>] : k \in {"error", "badformat"}}
    \cup {[kind |-> "ok", measures |-> ms] :
            ms \in UNION {[keys -> 0..MaxDefects] : keys \in SUBSET MetricKeys}}

\* Two coverage values are the same number (num is a multiple of 100).
SameCoverage(a, b) == (a.num \div 100) * b.den = (b.num \div 100) * a.den

\* analyze() run once more after a run that reached a verdict, the server's
\* answer the same and the coverage document one of the same coverage.
SonarRunAgain ==
    /\ sonarVerdict # "none"
    /\ \E doc \in JacocoDocs :
          /\ SameCoverage(ParseJacocoReport(doc), ParseJacocoReport(jacoco))
          /\ jacoco' = doc
          /\ SonarProcessed(doc, api)
    /\ UNCHANGED <<api, sonarScanner, snykVars, pipeVars>>

SonarStart ==
    /\ jacoco \in JacocoDocs
    /\ api \in ApiAnswers
    /\ sonarPc = "start"
    /\ sonarExit = NotExited
    /\ sonarScanner = "none"
    /\ sonarVerdict = "none"
    /\ sonarReport = <<>>
    /\ sonarPrinted = <<>>

\* No SonarAnalyser in the run (MainPipeline.main has it commented out).
SonarIdle ==
    /\ jacoco = [kind |-> "missing", missed |-> 0, covered |-> 0]
    /\ api = [kind |-> "error", measures |-> <<>>]
    /\ sonarPc = "idle"
    /\ sonarExit = NotExited
    /\ sonarScanner = "none"
    /\ sonarVerdict = "none"
    /\ sonarReport = <<>>
    /\ sonarPrinted = <<>>

\* --------------------------------------------------- leaving the process

\* sys.exit(1) in stage: the stage has reported the failure of the given kind.
Abort(stage, kind) ==
    /\ pc' = "Exited"
    /\ exitStatus' = 1
    /\ reported' = reported \cup {stage}
    /\ fatal' = fatal \cup {kind}

\* The step returns and main() goes on with the next one.
ContinueMutant(next) ==
    /\ pc' = (IF next = "Snyk" THEN "DepAudit" ELSE next)
    /\ UNCHANGED <<exitStatus, reported, fatal>>

Continue(next) ==
    /\ pc' = next
    /\ UNCHANGED <<exitStatus, reported, fatal>>

\* main() returns: the interpreter exits with status 0.
ReturnFromMain ==
    /\ pc' = "Done"
    /\ exitStatus' = 0
    /\ UNCHANGED <<reported, fatal>>

\* --------------------------------------------------------------- GitChecker

Origin == <<"o", "r", "i", "g", "i", "n", "/">>

MainB == <<"m", "a", "i", "n">>

MasterB == <<"m", "a", "s", "t", "e", "r">>

DevB == <<"d", "e", "v">>

DevelopB == <<"d", "e", "v", "e", "l", "o", "p">>

FixB == <<"f", "i", "x">>

\* protected_branches = ['main', 'master', 'dev', 'develop']
protected_branchesMutant == <<MainB, MasterB>>

protected_branches == <<MainB, MasterB, DevB, DevelopB>>

\* branches_to_check = ['main', 'master', 'develop', 'dev']
branches_to_check == <<MainB, MasterB, DevelopB, DevB>>

InList(x, list) == \E i \in DOMAIN list : list[i] = x

\* response = input(...).lower(); response != 'y' aborts
ConfirmedMutant(response) == Lower(response) # <<"n">>

Confirmed(response) == Lower(response) = <<"y">>

GitOp(cmd, arg, ok) == [cmd |-> cmd, arg |-> arg, ok |-> ok]

Asked(kind, about, answer) == [kind |-> kind, about |-> about, answer |-> answer]

Arrow == <<" ", "-", ">", " ">>

\* One line of `git status --porcelain`: lstrip, split once on a space, and of
\* 'old -> new' the piece after the first arrow. <<>> when there is no path.
ParseStatusLine(line) ==
    LET parts == SplitOnce(LStrip(line), <<" ">>)
    IN  IF Len(parts) = 2
        THEN IF Contains(parts[2], Arrow)
             THEN <<Split(parts[2], Arrow)[2]>>
             ELSE <<parts[2]>>
        ELSE <<>>

\* status_output.strip().splitlines(): the text loses the white space before
\* its first line and after its last.
StripLines(lines) ==
    [i \in DOMAIN lines |->
        LET l == IF i = 1 THEN LStrip(lines[i]) ELSE lines[i]
        IN  IF i = Len(lines) THEN RStrip(l) ELSE l]

RECURSIVE ParseLines(_)
ParseLines(lines) ==
    IF lines = <<>> THEN <<>>
    ELSE ParseStatusLine(Head(lines)) \o ParseLines(Tail(lines))

\* parsed_files of stage_files for a status output given as its lines.
ParseStatus(lines) == ParseLines(StripLines(lines))

\* The path a porcelain entry 'XY path' or 'XY old -> new' is about.
EntryPath(line) ==
    LET rest == SubSeq(line, 4, Len(line))
        i == FindSub(rest, Arrow)
    IN  IF i = 0 THEN rest ELSE SubSeq(rest, i + Len(Arrow), Len(rest))

\* The paths of the work tree that `git add` can be given.
WorktreePaths == {EntryPath(repo.status[i]) : i \in DOMAIN repo.status}

\* The paths with changes in the index before the run: X is neither ' ' nor '?'.
StagedAtStart(status) ==
    {EntryPath(status[i]) : i \in {j \in DOMAIN status : status[j][1] \notin {" ", "?"}}}

\* `git add path` fails on a path that matches no file, and may fail otherwise.
AddOutcomes(path) == IF path \in WorktreePaths THEN BOOLEAN ELSE {FALSE}

\* `git diff --cached --quiet`: 0 nothing staged, 1 changes staged, 128 on error.
DiffReturnCode(ok, index) == IF ~ok THEN 128 ELSE IF index # {} THEN 1 ELSE 0

\* has_staged_changes = subprocess.run([... 'diff', '--cached', '--quiet']).returncode != 0
HasStagedChanges(returncode) == returncode # 0

\* `git commit` fails when nothing is staged, and may fail otherwise.
CommitOutcomes == IF vcs.index # {} THEN BOOLEAN ELSE {FALSE}

\* full_commit_message = f"{self.jira_ticket}: {commit_message}"
FullCommitMessage(jira_ticket, commit_message) ==
    jira_ticket \o <<":", " ">> \o commit_message

\* The text of `git branch -r`: one line '  origin/<name>' per remote branch.
BranchROutput(names) == {<<" ", " ">> \o Origin \o n : n \in names}

\* f'origin/{branch}' in remotes
RemoteListedMutant(branch, remotes) ==
    \E l \in remotes : l = <<" ", " ">> \o Origin \o branch

RemoteListed(branch, remotes) == \E l \in remotes : Contains(l, Origin \o branch)

\* `git log HEAD..origin/<branch>` fails on a branch the remote does not have,
\* and may fail otherwise (failing); it lists something when the remote branch is
\* ahead of HEAD.
LogOk(branch, failing) == branch \in repo.remotes /\ branch \notin failing

LogOutput(branch, failing) ==
    IF LogOk(branch, failing) /\ branch \in repo.ahead THEN <<"commits">> ELSE <<>>

\* The branches of branches_to_check the loop runs `git log` for, in order.
CheckedBranches(remotes) ==
    SelectSeq(branches_to_check, LAMBDA b : RemoteListed(b, remotes))

\* report_content: one section per checked branch whose log lists something.
RECURSIVE ReportContent(_, _)
ReportContent(checked, failing) ==
    IF checked = <<>> THEN <<>>
    ELSE (IF LogOutput(Head(checked), failing) # <<>>
          THEN <<[branch |-> Head(checked), log |-> LogOutput(Head(checked), failing)]>>
          ELSE <<>>)
         \o ReportContent(Tail(checked), failing)

\* The warning report an earlier run wrote, about commits since pulled.
EarlierReport == <<[branch |-> MainB, log |-> <<"earlier commits">>]>>

\* git-warning-report.md as it lies on disk: open(report_file, 'w') replaces
\* what an earlier run left, and a run that writes nothing leaves it there.
WarningReportOnDisk ==
    IF vcs.report_file # <<>> THEN vcs.report_file
    ELSE IF repo.earlier_report THEN <<EarlierReport>>
    ELSE <<>>

\* if not jira_ticket: only the empty string is falsy, a blank one is not.
TicketMissingMutant(jira_ticket) == FALSE

TicketMissing(jira_ticket) == jira_ticket = <<>>

\* GitChecker(): the ticket is asked for, the report directory made, the
\* current branch read.
GitInit ==
    /\ pc = "GitInit"
    /\ stages' = Append(stages, "VcsSync")
    /\ \E jira_ticket \in {<<>>, <<" ">>, <<"D", "1">>} :
          /\ prompts' = Append(prompts, Asked("ticket", <<>>, jira_ticket))
          /\ IF TicketMissing(jira_ticket)
             THEN /\ Abort("VcsSync", "no_ticket")
                  /\ UNCHANGED <<gitOps, vcs>>
             ELSE IF "git" \notin tools
             THEN /\ Abort("VcsSync", "missing_executable")
                  /\ gitOps' = gitOps
                  /\ vcs' = [vcs EXCEPT !.jira_ticket = jira_ticket, !.report_dir = TRUE]
             ELSE \E ok \in BOOLEAN :
                    /\ gitOps' = Append(gitOps, GitOp("rev-parse", <<>>, ok))
                    /\ vcs' = [vcs EXCEPT !.jira_ticket = jira_ticket,
                                          !.report_dir = TRUE,
                                          !.current_branch =
                                              IF ok THEN RStrip(LStrip(repo.branch)) ELSE <<>>]
                    /\ IF ok /\ RStrip(LStrip(repo.branch)) # <<>>
                       THEN Continue("BranchCheck")
                       ELSE Abort("VcsSync", "command_failed")
    /\ UNCHANGED <<tools, repo, mvnOutput, snykRun, buildLog, depTree, snykVars, sonarVars>>

\* check_current_branch(), and run_full_process returning when it says False.
CheckCurrentBranch ==
    /\ pc = "BranchCheck"
    /\ IF InList(vcs.current_branch, protected_branches)
       THEN \E response \in {<<"y">>, <<"Y">>, <<"n">>, <<"y", "e", "s">>, <<>>} :
              /\ prompts' = Append(prompts, Asked("confirm", vcs.current_branch, response))
              /\ IF Confirmed(response)
                 THEN Continue("Stage") /\ vcs' = vcs
                 ELSE ReturnFromMain /\ vcs' = [vcs EXCEPT !.declined = TRUE]
       ELSE Continue("Stage") /\ UNCHANGED <<prompts, vcs>>
    /\ UNCHANGED <<tools, repo, mvnOutput, snykRun, stages, buildLog, depTree, gitOps, snykVars, sonarVars>>

\* stage_files() up to the loop: the status is read and parsed.
StageStatus ==
    /\ pc = "Stage"
    /\ \E ok \in BOOLEAN :
          /\ gitOps' = Append(gitOps, GitOp("status", <<>>, ok))
          /\ IF ~ok
             THEN Abort("VcsSync", "command_failed") /\ vcs' = vcs
             ELSE LET parsed_files == IF repo.status = <<>> THEN <<>>
                                      ELSE ParseStatus(repo.status)
                  IN  IF parsed_files = <<>>
                      THEN Continue("Commit") /\ vcs' = vcs
                      ELSE /\ Continue("StageLoop")
                           /\ vcs' = [vcs EXCEPT !.parsed_files = parsed_files,
                                                 !.next = 1, !.add_all = FALSE]
    /\ UNCHANGED <<tools, repo, mvnOutput, snykRun, stages, buildLog, depTree, prompts, snykVars, sonarVars>>

\* self._run_git_command(['add', file_path]) in the loop, add_all as it is by then.
GitAdd(file_path, after, add_all) ==
    \E ok \in AddOutcomes(file_path) :
        /\ gitOps' = Append(gitOps, GitOp("add", file_path, ok))
        /\ IF ok
           THEN /\ Continue(after)
                /\ vcs' = [vcs EXCEPT !.next = @ + 1, !.add_all = add_all,
                                      !.index = @ \cup {file_path}]
           ELSE /\ Abort("VcsSync", "command_failed")
                /\ vcs' = [vcs EXCEPT !.add_all = add_all]

\* response == 'y'
StageThisMutant(response) == response \in {<<"y">>, <<"n">>}

StageThis(response) == response = <<"y">>

\* response == 'a'
StageAllMutant(response) == FALSE

StageAll(response) == response = <<"a">>

\* response == 'q'
QuitStaging(response) == response = <<"q">>

\* One turn of the loop of stage_files() over parsed_files.
StageFile ==
    /\ pc = "StageLoop"
    /\ LET file_path == vcs.parsed_files[vcs.next]
           after == IF vcs.next = Len(vcs.parsed_files) THEN "Commit" ELSE "StageLoop"
       IN  IF vcs.add_all
           THEN GitAdd(file_path, after, TRUE) /\ prompts' = prompts
           ELSE \E answer \in {<<"y">>, <<"Y">>, <<"n">>, <<"a">>, <<"A">>, <<"q">>, <<"Q">>,
                                <<"y", "e", "s">>} :
                  /\ prompts' = Append(prompts, Asked("stage", file_path, answer))
                  /\ LET response == Lower(answer)
                     IN  IF StageThis(response) THEN GitAdd(file_path, after, FALSE)
                         ELSE IF StageAll(response) THEN GitAdd(file_path, after, TRUE)
                         ELSE IF QuitStaging(response)
                         THEN Continue("Commit") /\ UNCHANGED <<gitOps, vcs>>
                         ELSE /\ Continue(after)
                              /\ gitOps' = gitOps
                              /\ vcs' = [vcs EXCEPT !.next = @ + 1]
    /\ UNCHANGED <<tools, repo, mvnOutput, snykRun, stages, buildLog, depTree, snykVars, sonarVars>>

\* create_commit()
CreateCommit ==
    /\ pc = "Commit"
    /\ \E diffOk \in BOOLEAN :
          LET diff == GitOp("diff --cached", <<>>, diffOk)
              has_staged_changes == HasStagedChanges(DiffReturnCode(diffOk, vcs.index))
          IN  IF ~has_staged_changes
              THEN /\ gitOps' = Append(gitOps, diff)
                   /\ Continue("Drift")
                   /\ UNCHANGED <<prompts, vcs>>
              ELSE \E commit_message \in {<<"f", "i", "x">>} : \E ok \in CommitOutcomes :
                     LET full == FullCommitMessage(vcs.jira_ticket, commit_message)
                     IN  /\ prompts' = Append(prompts, Asked("message", <<>>, commit_message))
                         /\ gitOps' = gitOps \o <<diff, GitOp("commit", full, ok)>>
                         /\ IF ok
                            THEN /\ Continue("Drift")
                                 /\ vcs' = [vcs EXCEPT !.commits = Append(@, full),
                                                       !.index = {}]
                            ELSE Abort("VcsSync", "command_failed") /\ vcs' = vcs
    /\ UNCHANGED <<tools, repo, mvnOutput, snykRun, stages, buildLog, depTree, snykVars, sonarVars>>

\* check_remote_changes()
CheckRemoteChanges ==
    /\ pc = "Drift"
    /\ \E fetchOk \in BOOLEAN, branchOk \in BOOLEAN, failing \in SUBSET repo.remotes :
          IF ~fetchOk
          THEN /\ gitOps' = Append(gitOps, GitOp("fetch", <<>>, FALSE))
               /\ Abort("VcsSync", "command_failed")
               /\ vcs' = vcs
          ELSE IF ~branchOk
          THEN /\ gitOps' = gitOps \o <<GitOp("fetch", <<>>, TRUE),
                                        GitOp("branch -r", <<>>, FALSE)>>
               /\ Abort("VcsSync", "command_failed")
               /\ vcs' = vcs
          ELSE LET remotes == BranchROutput(repo.remotes)
                   checked == CheckedBranches(remotes)
                   report_content == ReportContent(checked, failing)
               IN  /\ gitOps' = gitOps
                          \o <<GitOp("fetch", <<>>, TRUE), GitOp("branch -r", <<>>, TRUE)>>
                          \o [i \in DOMAIN checked |->
                                GitOp("log", checked[i], LogOk(checked[i], failing))]
                   /\ vcs' = [vcs EXCEPT !.report_file =
                                 IF report_content # <<>> THEN <<report_content>> ELSE @]
                   /\ Continue("Push")
    /\ UNCHANGED <<tools, repo, mvnOutput, snykRun, stages, buildLog, depTree, prompts, snykVars, sonarVars>>

\* push_to_remote(), and the return through run_full_process() and main().
PushToRemoteMutant ==
    /\ pc = "Push"
    /\ IF vcs.report_file # <<>>
       THEN ReturnFromMain /\ UNCHANGED <<gitOps, vcs>>
       ELSE \E ok \in BOOLEAN :
              /\ gitOps' = Append(gitOps, GitOp("push", vcs.current_branch, ok))
              /\ IF ok
                 THEN ReturnFromMain /\ vcs' = [vcs EXCEPT !.pushed = TRUE]
                 ELSE Abort("VcsSync", "command_failed") /\ vcs' = vcs
    /\ UNCHANGED <<tools, repo, mvnOutput, snykRun, stages, buildLog, depTree, prompts, snykVars, sonarVars>>

PushToRemote ==
    /\ pc = "Push"
    /\ \E ok \in BOOLEAN :
          /\ gitOps' = Append(gitOps, GitOp("push", vcs.current_branch, ok))
          /\ IF ok
             THEN ReturnFromMain /\ vcs' = [vcs EXCEPT !.pushed = TRUE]
             ELSE Abort("VcsSync", "command_failed") /\ vcs' = vcs
    /\ UNCHANGED <<tools, repo, mvnOutput, snykRun, stages, buildLog, depTree, prompts, snykVars, sonarVars>>

GitNext ==
    \/ GitInit
    \/ CheckCurrentBranch
    \/ StageStatus
    \/ StageFile
    \/ CreateCommit
    \/ CheckRemoteChanges
    \/ PushToRemote

\* ----------------------------------------------------- the pipeline stages

\* if result.returncode != 0: ... sys.exit(1)
BuildFailedMutant(returncode) == returncode > 1

BuildFailed(returncode) == returncode # 0

\* MavenBuilder().build(): the log is written whenever mvn could be run, before
\* its exit code is looked at.
Build ==
    /\ pc = "Build"
    /\ stages' = Append(stages, "Build")
    /\ IF "mvn" \notin tools
       THEN Abort("Build", "missing_executable") /\ buildLog' = buildLog
       ELSE \E returncode \in 0..MaxReturnCode :
              /\ buildLog' = <<returncode>>
              /\ IF BuildFailed(returncode)
                 THEN Abort("Build", "command_failed")
                 ELSE Continue("Snyk")
    /\ UNCHANGED <<tools, repo, mvnOutput, snykRun, depTree, prompts, gitOps, vcs, snykVars, sonarVars>>

\* The scans the pipeline's scanner can produce: a clean project, the spec's
\* one critical vulnerability, and one vulnerability that matches no rule.
PipelineScans ==
    { JsonObject([ok |-> TRUE]),
      JsonList(<<[ok |-> FALSE,
                  vulnerabilities |->
                      <<[packageName |-> "libfoo", severity |-> "critical",
                         version |-> "1.0", fixedIn |-> <<V11>>, url |-> "http://x"]>>]>>),
      JsonList(<<[ok |-> FALSE,
                  vulnerabilities |->
                      <<[packageName |-> "libbar", severity |-> "medium",
                         fixedIn |-> <<V12>>, exploit |-> "Mature"]>>]>>) }

\* if result.returncode >= 2: ... sys.exit(1)
SnykFatalMutant(returncode) == returncode > 2

SnykFatal(returncode) == returncode >= 2

\* json.loads(snyk_json_output) raising json.JSONDecodeError
MalformedMutant(validJson) == FALSE

Malformed(validJson) == ~validJson

\* What became of one run of the scanner: its exit code, whether json.loads was
\* reached, and whether the output was valid JSON.
SnykRan(returncode, validJson) ==
    <<[returncode |-> returncode, parsing |-> ~SnykFatal(returncode),
       validJson |-> validJson]>>

\* SnykAnalyser().analyze(): _run_snyk_command, then _process_snyk_results.
\* The exit code is looked at before the output is parsed.
SnykAnalyse ==
    /\ pc = "Snyk"
    /\ stages' = Append(stages, "SecurityScan")
    /\ IF "snyk" \notin tools
       THEN /\ Abort("SecurityScan", "missing_executable")
            /\ UNCHANGED <<snykVars, snykRun>>
       ELSE \E returncode \in 0..MaxReturnCode, validJson \in BOOLEAN, data \in PipelineScans :
              /\ snykRun' = SnykRan(returncode, validJson)
              /\ IF SnykFatal(returncode)
                 THEN Abort("SecurityScan", "command_failed") /\ UNCHANGED snykVars
                 ELSE IF Malformed(validJson)
                 THEN Abort("SecurityScan", "malformed_output") /\ UNCHANGED snykVars
                 ELSE /\ SnykProcessed(data)
                      /\ pc' = "DepAudit"
                      /\ exitStatus' = exitStatus
                      /\ reported' = IF ParseAndGate(data).failed
                                     THEN reported \cup {"SecurityScan"} ELSE reported
                      /\ fatal' = IF ParseAndGate(data).failed
                                  THEN fatal \cup {"gate_failed"} ELSE fatal
    /\ UNCHANGED <<tools, repo, buildLog, mvnOutput, depTree, prompts, gitOps, vcs,
                   sonarVars>>

\* ------------------------------------------------- the dependency tree

InfoPrefix == <<"[", "I", "N", "F", "O", "]", " ">>

WarningPrefix == <<"[", "W", "A", "R", "N", "I", "N", "G", "]">>

\* start_marker = "[INFO] --- dependency"
start_marker == InfoPrefix \o <<"-", "-", "-", " ", "d", "e", "p", "e", "n", "d", "e", "n", "c", "y">>

EndMarkerDashes == 72

\* end_marker = "[INFO] " followed by a rule of 72 dashes
end_marker == InfoPrefix \o [i \in 1..EndMarkerDashes |-> "-"]

BuildSuccess == InfoPrefix \o <<"B", "U", "I", "L", "D", " ", "S", "U", "C", "C", "E", "S", "S">>

\* "Could not parse dependency tree. Is 'pom.xml' valid?"
CouldNotParse ==
    <<"C", "o", "u", "l", "d", " ", "n", "o", "t", " ", "p", "a", "r", "s", "e", " ", "d",
      "e", "p", "e", "n", "d", "e", "n", "c", "y", " ", "t", "r", "e", "e", ".", " ",
      "I", "s", " ", "'", "p", "o", "m", ".", "x", "m", "l", "'", " ", "v", "a", "l",
      "i", "d", "?">>

Newline == <<"\n">>

\* str.startswith
StartsWith(s, prefix) == Len(s) >= Len(prefix) /\ SubSeq(s, 1, Len(prefix)) = prefix

\* line[len("[INFO] "):]
StripInfoMutant(line) == line

StripInfo(line) == SubSeq(line, Len(InfoPrefix) + 1, Len(line))

TreeStepMutant(acc, line) ==
    IF acc.broken THEN acc
    ELSE IF Contains(line, start_marker) THEN [acc EXCEPT !.capturing = TRUE]
    ELSE IF ~acc.capturing THEN acc
    ELSE IF StartsWith(line, end_marker) THEN [acc EXCEPT !.broken = TRUE]
    ELSE IF StartsWith(line, InfoPrefix)
         THEN [acc EXCEPT !.tree_lines = Append(@, StripInfo(line))]
    ELSE IF StartsWith(line, WarningPrefix)
         THEN [acc EXCEPT !.tree_lines = Append(@, line)]
    ELSE acc

\* The body of the loop over output.splitlines(): acc holds capturing,
\* tree_lines and whether the loop has been left by break.
TreeStep(acc, line) ==
    IF acc.broken THEN acc
    ELSE IF Contains(line, start_marker) THEN [acc EXCEPT !.capturing = TRUE]
    ELSE IF ~acc.capturing THEN acc
    ELSE IF StartsWith(line, end_marker) THEN [acc EXCEPT !.broken = TRUE]
    ELSE IF StartsWith(line, InfoPrefix)
         THEN [acc EXCEPT !.tree_lines = Append(@, StripInfo(line))]
    ELSE IF StartsWith(line, WarningPrefix)
         THEN [acc EXCEPT !.tree_lines = Append(@, line)]
    ELSE IF ~StartsWith(line, BuildSuccess) THEN [acc EXCEPT !.broken = TRUE]
    ELSE acc

RECURSIVE TreeLoop(_, _)
TreeLoop(acc, lines) ==
    IF lines = <<>> THEN acc ELSE TreeLoop(TreeStep(acc, Head(lines)), Tail(lines))

\* _parse_project_tree_output(output), output given as its lines.
ParseProjectTreeOutput(lines) ==
    LET tree_lines ==
            TreeLoop([capturing |-> FALSE, tree_lines |-> <<>>, broken |-> FALSE],
                     lines).tree_lines
    IN  IF tree_lines = <<>> THEN CouldNotParse ELSE Join(Newline, tree_lines)

\* What get_project_dependency_tree returns: None, or a text.
ReturnedNone == <<[none |-> TRUE, text |-> <<>>]>>

ReturnedText(text) == <<[none |-> FALSE, text |-> text]>>

\* Lines of Maven's console: the plugin header, the closing rule, two lines of
\* a tree, a warning, the success banner, a line without a level.
StartLine == start_marker \o <<":", "t", "r", "e", "e">>

TreeLineA == InfoPrefix \o <<"a">>

TreeLineB == InfoPrefix \o <<"+", "-", " ", "b">>

WarningLine == WarningPrefix \o <<" ", "w">>

PlainLine == <<"x">>

ConsoleLines == {StartLine, end_marker, TreeLineA, TreeLineB, WarningLine, BuildSuccess, PlainLine}

\* The outputs the pipeline's `mvn dependency:tree` prints on success.
PipelineTrees ==
    { <<PlainLine, StartLine, TreeLineA, TreeLineB, end_marker, BuildSuccess>>,
      <<PlainLine, BuildSuccess>> }

\* MavenDependencyAnalyzer().get_project_dependency_tree(), printed by main():
\* None when `mvn dependency:tree` fails, else the parsed tree. The build has
\* passed, so pom.xml and mvn are there.
DependencyAudit ==
    /\ pc = "DepAudit"
    /\ stages' = Append(stages, "DependencyAudit")
    /\ \E returncode \in {0, 1}, output \in PipelineTrees :
          /\ mvnOutput' = (IF returncode = 0 THEN output ELSE <<>>)
          /\ depTree' = (IF returncode = 0
                         THEN ReturnedText(ParseProjectTreeOutput(output))
                         ELSE ReturnedNone)
          /\ reported' = IF returncode = 0 THEN reported
                         ELSE reported \cup {"DependencyAudit"}
          /\ fatal' = IF returncode = 0 THEN fatal ELSE fatal \cup {"command_failed"}
    /\ pc' = "Remediation"
    /\ UNCHANGED <<tools, repo, exitStatus, buildLog, snykRun, prompts, gitOps, vcs,
                   snykVars, sonarVars>>

\* _parse_project_tree_output on its own.
ParseProjectTree ==
    /\ pc = "ParseTree"
    /\ depTree' = ReturnedText(ParseProjectTreeOutput(mvnOutput))
    /\ pc' = "Parsed"
    /\ UNCHANGED <<tools, repo, exitStatus, stages, reported, fatal, buildLog, mvnOutput,
                   snykRun, prompts, gitOps, vcs, snykVars, sonarVars>>

\* VulnerabilityFixer().run(): best effort, never ends the run.
Remediation ==
    /\ pc = "Remediation"
    /\ stages' = Append(stages, "Remediation")
    /\ Continue("GitInit")
    /\ UNCHANGED <<tools, repo, mvnOutput, snykRun, buildLog, depTree, prompts, gitOps, vcs,
                   snykVars, sonarVars>>

\* ------------------------------------------------- repositories and starts

NewGitChecker(status) ==
    [jira_ticket |-> <<>>, report_dir |-> FALSE, current_branch |-> <<>>,
     parsed_files |-> <<>>, next |-> 0, add_all |-> FALSE,
     index |-> StagedAtStart(status), commits |-> <<>>, report_file |-> <<>>,
     pushed |-> FALSE, declined |-> FALSE]

\* earlier_report: an earlier run left .dev-aegis/git-warning-report.md behind.
Repo(branch, status, remotes, ahead) ==
    [branch |-> branch, status |-> status, remotes |-> remotes, ahead |-> ahead,
     earlier_report |-> FALSE]

\* Porcelain entries: modified not staged, modified and staged, untracked,
\* renamed in the index.
StatusLines ==
    { <<" ", "M", " ", "a">>,
      <<"M", " ", " ", "b">>,
      <<"?", "?", " ", "c">>,
      <<"R", " ", " ", "a", " ", "-", ">", " ", "d">> }

\* Status outputs of at most n entries, no entry twice.
StatusOutputs(n) ==
    {st \in SeqsUpTo(StatusLines, n) : \A i, j \in DOMAIN st : i # j => st[i] # st[j]}

RemoteNames == {MainB, MasterB, DevelopB, DevB}

\* Repositories that differ in the current branch,
BranchRepos ==
    {Repo(b, <<<<" ", "M", " ", "a">>>>, {MainB}, {}) :
        b \in {MainB, MasterB, DevB, DevelopB, FixB}}

\* in what `git status` lists,
StatusRepos == {Repo(FixB, st, {}, {}) : st \in StatusOutputs(MaxFiles)}

\* and in the remote branches and which of them are ahead of HEAD.
RemoteRepos ==
    {r \in {[Repo(FixB, <<>>, rs, ah) EXCEPT !.earlier_report = e] :
                rs \in SUBSET RemoteNames, ah \in SUBSET RemoteNames, e \in BOOLEAN} :
        r.ahead \subseteq r.remotes}

PipelineRepos ==
    {Repo(b, st, {MainB}, ah) :
        b \in {MainB, FixB}, st \in StatusOutputs(1), ah \in {{}, {MainB}}}

PipeStart(program, toolset, repos) ==
    /\ tools \in SUBSET toolset
    /\ repo \in repos
    /\ pc = program
    /\ exitStatus = NotExited
    /\ stages = <<>>
    /\ reported = {}
    /\ fatal = {}
    /\ buildLog = <<>>
    /\ mvnOutput = <<>>
    /\ depTree = <<>>
    /\ snykRun = <<>>
    /\ prompts = <<>>
    /\ gitOps = <<>>
    /\ vcs = NewGitChecker(repo.status)

\* Neither main() running.
PipeIdle ==
    /\ tools = {}
    /\ repo = Repo(<<>>, <<>>, {}, {})
    /\ pc = "idle"
    /\ exitStatus = NotExited
    /\ stages = <<>>
    /\ reported = {}
    /\ fatal = {}
    /\ buildLog = <<>>
    /\ mvnOutput = <<>>
    /\ depTree = <<>>
    /\ snykRun = <<>>
    /\ prompts = <<>>
    /\ gitOps = <<>>
    /\ vcs = NewGitChecker(<<>>)

\* ------------------------------------------------------ the specifications

\* MainPipeline.main()
Init == PipeStart("Build", {"mvn", "snyk", "git"}, PipelineRepos) /\ SnykIdle /\ SonarIdle

Next ==
    \/ Build
    \/ SnykAnalyse
    \/ DependencyAudit
    \/ Remediation
    \/ GitNext

Spec == Init /\ [][Next]_vars

\* GitChecker.main()
GitStart ==
    /\ PipeStart("GitInit", {"git"}, BranchRepos \cup StatusRepos \cup RemoteRepos)
    /\ SnykIdle
    /\ SonarIdle

SpecGit == GitStart /\ [][GitNext]_vars

\* GitChecker.main() as a sequential program that keeps running: every prompt is
\* answered and every git command returns, so the step at hand is taken.
SpecGitLive == SpecGit /\ WF_vars(GitNext)

SnykNext == ProcessSnykResults

\* One entry of a vulnerabilities array, each field given or left out
\* ("absent"; for fixedIn 0 is absent, else the index into FixedInChoices).
FixedInChoices == <<<<>>, <<V11>>, <<V11, V12>>>>

MakeVuln(packageName, severity, version, fixedIn, url, exploit) ==
    LET keys == (IF packageName = "absent" THEN {} ELSE {"packageName"})
                \cup (IF severity = "absent" THEN {} ELSE {"severity"})
                \cup (IF version = "absent" THEN {} ELSE {"version"})
                \cup (IF fixedIn = 0 THEN {} ELSE {"fixedIn"})
                \cup (IF url = "absent" THEN {} ELSE {"url"})
                \cup (IF exploit = "absent" THEN {} ELSE {"exploit"})
    IN  [k \in keys |->
            CASE k = "packageName" -> packageName
              [] k = "severity" -> severity
              [] k = "version" -> version
              [] k = "fixedIn" -> FixedInChoices[fixedIn]
              [] k = "url" -> url
              [] k = "exploit" -> exploit]

\* A scan of one ok-false object with one entry, every field present or not.
FieldsStart ==
    /\ \E packageName \in {"absent", "libfoo"},
          severity \in {"absent", "critical", "high", "medium"},
          version \in {"absent", "1.0"},
          fixedIn \in 0..Len(FixedInChoices),
          url \in {"absent", "http://x"},
          exploit \in {"absent", "Mature", "Proof of Concept"} :
          snyk_data = JsonList(<<MakeProject("false", TRUE,
                          <<MakeVuln(packageName, severity, version, fixedIn, url, exploit)>>)>>)
    /\ vulnerabilities_to_report = <<>>
    /\ quality_gate_failed = FALSE
    /\ failure_reasons = <<>>
    /\ printed_reasons = <<>>
    /\ snykReport = <<>>
    /\ snykPc = "parsed"

\* SnykAnalyser._process_snyk_results on one entry with every choice of fields.
FieldsInit == FieldsStart /\ SonarIdle /\ PipeIdle

SpecSnykFields == FieldsInit /\ [][SnykNext]_vars

\* _parse_project_tree_output on every console output within the bounds.
TreeInit ==
    /\ mvnOutput \in SeqsUpTo(ConsoleLines, MaxLines)
    /\ pc = "ParseTree"
    /\ tools = {}
    /\ repo = Repo(<<>>, <<>>, {}, {})
    /\ exitStatus = NotExited
    /\ stages = <<>>
    /\ reported = {}
    /\ fatal = {}
    /\ buildLog = <<>>
    /\ depTree = <<>>
    /\ snykRun = <<>>
    /\ prompts = <<>>
    /\ gitOps = <<>>
    /\ vcs = NewGitChecker(<<>>)
    /\ SnykIdle
    /\ SonarIdle

TreeNext == ParseProjectTree

SpecTree == TreeInit /\ [][TreeNext]_vars

\* SnykAnalyser._process_snyk_results on every scan within the bounds.
SnykInit == SnykStart /\ SonarIdle /\ PipeIdle

SpecSnyk == SnykInit /\ [][SnykNext]_vars

\* SonarAnalyser.analyze on every coverage document and server answer within
\* the bounds.
SonarInit == SonarStart /\ SnykIdle /\ PipeIdle

SonarNext == SonarScan \/ SonarProcessResults

SpecSonar == SonarInit /\ [][SonarNext]_vars

\* Either analyser run on its own, and then again: SnykAnalyser's
\* _process_snyk_results on a scan of one object, or SonarAnalyser.analyze().
GatesInit ==
    \/ SnykStartUpTo(1) /\ SonarIdle /\ PipeIdle
    \/ SonarStart /\ SnykIdle /\ PipeIdle

GatesNext == SnykNext \/ SonarNext \/ SnykRunAgain \/ SonarRunAgain

SpecGates == GatesInit /\ [][GatesNext]_vars

\* --------------------------------------------- the scan, as the claims read it

\* The scanned objects of the input, a single object counting as a list of one.
ScannedObjects == IF snyk_data.isList THEN snyk_data.json ELSE <<snyk_data.json>>

\* An object whose ok is false (ok missing counts as true).
OkIsFalse(obj) == "ok" \in DOMAIN obj /\ obj.ok = FALSE

\* An object's vulnerabilities array, empty when it has none.
ArrayOf(obj) == IF "vulnerabilities" \in DOMAIN obj THEN obj.vulnerabilities ELSE <<>>

\* The arrays of the ok-false objects, one after the other in input order.
RECURSIVE Encountered(_)
Encountered(objs) ==
    IF objs = <<>> THEN <<>>
    ELSE (IF OkIsFalse(Head(objs)) THEN ArrayOf(Head(objs)) ELSE <<>>)
         \o Encountered(Tail(objs))

RECURSIVE SumOfArrayLengths(_)
SumOfArrayLengths(objs) ==
    IF objs = <<>> THEN 0
    ELSE (IF OkIsFalse(Head(objs)) THEN Len(ArrayOf(Head(objs))) ELSE 0)
         + SumOfArrayLengths(Tail(objs))

\* Row i of the parser's output together with the exploit maturity of the
\* entry it was made from (the row itself does not carry it).
Matches1(i) == vulnerabilities_to_report[i].severity = "critical"

Matches2(i) ==
    LET src == Encountered(ScannedObjects)[i]
    IN  /\ vulnerabilities_to_report[i].severity = "high"
        /\ vulnerabilities_to_report[i].fixed_in # NA
        /\ "exploit" \in DOMAIN src
        /\ src.exploit = "Mature"

\* C3: the security gate fails iff some reported vulnerability is critical, or
\* some is high with fixedVersions other than the NA sentinel and a mature
\* exploit; entries matching neither rule leave the verdict alone.
C3_GateFailsIffRuleMatches ==
    snykPc = "processed" =>
        /\ Len(vulnerabilities_to_report) = Len(Encountered(ScannedObjects))
        /\ quality_gate_failed <=>
               \E i \in DOMAIN vulnerabilities_to_report : Matches1(i) \/ Matches2(i)

\* C3 witness: a processed scan that fails by rule 2 alone, beside an entry that
\* matches neither rule.
C3_Witness ==
    /\ snykPc = "processed"
    /\ quality_gate_failed
    /\ Len(vulnerabilities_to_report) = 2
    /\ \E i, j \in DOMAIN vulnerabilities_to_report :
          /\ Matches2(i)
          /\ ~Matches1(j) /\ ~Matches2(j)
          /\ vulnerabilities_to_report[j].severity = "high"

\* C8: the parser reports as many vulnerabilities as the arrays of the ok-false
\* objects hold in all, in encounter order; other objects contribute nothing.
C8_CountAndOrder ==
    snykPc = "processed" =>
        /\ Len(vulnerabilities_to_report) = SumOfArrayLengths(ScannedObjects)
        /\ \A i \in DOMAIN vulnerabilities_to_report :
              LET src == Encountered(ScannedObjects)[i]
              IN  /\ vulnerabilities_to_report[i].package = src.packageName
                  /\ vulnerabilities_to_report[i].severity = src.severity
                  /\ ("fixedIn" \in DOMAIN src /\ Len(src.fixedIn) = 1)
                        => vulnerabilities_to_report[i].fixed_in = src.fixedIn[1]

\* C8 witness: a list of two objects with one entry each, the first ok-false
\* and reported, the second not ok-false and left out.
C8_Witness ==
    /\ snykPc = "processed"
    /\ snyk_data.isList
    /\ Len(snyk_data.json) = 2
    /\ OkIsFalse(snyk_data.json[1]) /\ Len(ArrayOf(snyk_data.json[1])) = 1
    /\ ~OkIsFalse(snyk_data.json[2]) /\ Len(ArrayOf(snyk_data.json[2])) = 1
    /\ Len(vulnerabilities_to_report) = 1

\* The orders a sequence can be put in.
Orders(s) == {[i \in DOMAIN s |-> s[p[i]]] : p \in Permutations(DOMAIN s)}

WithArray(obj, arr) ==
    [k \in DOMAIN obj |-> IF k = "vulnerabilities" THEN arr ELSE obj[k]]

\* The lists got from objs by reordering the entries inside each object.
RECURSIVE ReorderedWithin(_)
ReorderedWithin(objs) ==
    IF objs = <<>> THEN {<<>>}
    ELSE {<<WithArray(Head(objs), arr)>> \o rest :
            arr \in Orders(ArrayOf(Head(objs))), rest \in ReorderedWithin(Tail(objs))}

\* The same vulnerabilities in another order: the objects reordered and the
\* entries reordered inside each, or all reported entries, in any order, in one
\* ok-false object.
Rearranged ==
    UNION {ReorderedWithin(objs) : objs \in Orders(ScannedObjects)}
    \cup {<<[ok |-> FALSE, vulnerabilities |-> arr]>> :
            arr \in Orders(Encountered(ScannedObjects))}

\* C9: the verdict and the set of reason lines are the same for every order of
\* the same vulnerabilities, within and across scanned objects.
C9_OrderIndependent ==
    snykPc = "processed" =>
        \A objs \in Rearranged :
            LET r == ParseAndGate(JsonList(objs))
            IN  /\ r.failed = quality_gate_failed
                /\ SeqToSet(PrintedReasons(r.failed, r.reasons)) = SeqToSet(printed_reasons)

\* C9 witness: a failing scan whose first reported entry matches no rule and
\* whose last one does, so that some other order ends on a non-matching entry.
C9_Witness ==
    /\ snykPc = "processed"
    /\ quality_gate_failed
    /\ Len(vulnerabilities_to_report) = 2
    /\ ~Matches1(1) /\ ~Matches2(1)
    /\ Matches1(2)
    /\ Cardinality(Rearranged) > 1

\* How often a line is printed.
TimesPrinted(line) ==
    Cardinality({i \in DOMAIN printed_reasons : printed_reasons[i] = line})

\* C10: reasons are a set of message strings: however many vulnerabilities of a
\* package trigger a rule, its line is printed exactly once, and the lines of
\* two rules firing for one package are both printed.
C10_ReasonsAreASet ==
    snykPc = "processed" =>
        \A p \in ScanPackages :
            /\ TimesPrinted(CriticalReason(p)) =
                  (IF \E i \in DOMAIN vulnerabilities_to_report :
                          vulnerabilities_to_report[i].package = p /\ Matches1(i)
                   THEN 1 ELSE 0)
            /\ TimesPrinted(HighReason(p)) =
                  (IF \E i \in DOMAIN vulnerabilities_to_report :
                          vulnerabilities_to_report[i].package = p /\ Matches2(i)
                   THEN 1 ELSE 0)

\* C10 witness: two critical vulnerabilities of one package, one line printed.
C10_Witness ==
    /\ snykPc = "processed"
    /\ Len(vulnerabilities_to_report) = 2
    /\ Matches1(1) /\ Matches1(2)
    /\ vulnerabilities_to_report[1].package = vulnerabilities_to_report[2].package
    /\ Len(failure_reasons) = 2
    /\ Len(printed_reasons) = 1

\* Both rules firing for one package: two lines printed.
C10_TwoRulesOnePackage ==
    /\ snykPc = "processed"
    /\ Len(vulnerabilities_to_report) = 2
    /\ Matches1(1) /\ Matches2(2)
    /\ vulnerabilities_to_report[1].package = vulnerabilities_to_report[2].package
    /\ Len(printed_reasons) = 2

C7_JustBelowFails ==
    /\ sonarPc = "exited"
    /\ sonarVerdict = "FAILED"
    /\ jacoco.kind = "counter" /\ jacoco.covered = 7999 /\ jacoco.missed = 2001
    /\ api.kind = "ok" /\ sonarPrinted # <<>> /\ sonarPrinted[1].line = "coverage"

\* ------------------------------------------- the pipeline, as the claims read it

GatedStages == {"Build", "SecurityScan", "DependencyAudit", "VcsSync"}

Terminated == pc \in {"Done", "Exited"}

StageStarted(stage) == \E i \in DOMAIN stages : stages[i] = stage

GitOpIssued(cmd) == \E i \in DOMAIN gitOps : gitOps[i].cmd = cmd

\* C1: a stage among Build, SecurityScan, DependencyAudit and VcsSync that has
\* reported a failure is the last stage started, and the run has ended aborted.
C1_FailureAborts ==
    \A i \in DOMAIN stages :
        (stages[i] \in GatedStages /\ stages[i] \in reported)
            => (i = Len(stages) /\ pc = "Exited" /\ exitStatus # 0)

\* C2: once the security gate has failed, none of DependencyAudit, Remediation
\* and VcsSync is started and no commit or push is issued.
C2_FailedGateHalts ==
    quality_gate_failed =>
        /\ ~StageStarted("DependencyAudit")
        /\ ~StageStarted("Remediation")
        /\ ~StageStarted("VcsSync")
        /\ ~GitOpIssued("commit")
        /\ ~GitOpIssued("push")

\* C4: the exit status is zero only when every stage through Push completed, and
\* it is not zero when an executable was missing, tool output was malformed, a
\* quality gate failed or an external command failed.
C4_ExitStatus ==
    Terminated =>
        /\ exitStatus = 0 =>
              /\ vcs.pushed
              /\ \A st \in {"Build", "SecurityScan", "DependencyAudit", "Remediation", "VcsSync"} :
                    StageStarted(st)
        /\ fatal \cap {"missing_executable", "malformed_output", "gate_failed", "command_failed"} # {}
              => exitStatus # 0

\* ------------------------------------------- the VCS stage, as the claims read it

ProtectedNames == {MainB, MasterB, DevB, DevelopB}

Affirmative == {<<"y">>, <<"Y">>}

Confirmations == {i \in DOMAIN prompts : prompts[i].kind = "confirm"}

PastBranchCheck == pc \in {"Stage", "StageLoop", "Commit", "Drift", "Push"} \/ Len(gitOps) > 1

\* C5: on main, master, dev or develop the run gets past the branch check only
\* after an affirmative answer; after any other answer the run has ended as
\* declined and nothing beyond reading the branch was issued; on another branch
\* no confirmation is asked for.
C5_ProtectedBranchConfirmation ==
    /\ pc \notin {"GitInit", "BranchCheck"} /\ vcs.current_branch \in ProtectedNames
          => /\ Cardinality(Confirmations) = 1
             /\ \A i \in Confirmations :
                   IF prompts[i].answer \in Affirmative
                   THEN ~vcs.declined
                   ELSE /\ vcs.declined
                        /\ pc = "Done"
                        /\ ~PastBranchCheck
                        /\ \A c \in {"status", "add", "diff --cached", "commit",
                                     "fetch", "branch -r", "log", "push"} : ~GitOpIssued(c)
    /\ PastBranchCheck /\ vcs.current_branch \in ProtectedNames
          => \E i \in Confirmations : prompts[i].answer \in Affirmative
    /\ vcs.current_branch \notin ProtectedNames => Confirmations = {} /\ ~vcs.declined

\* A protected branch, an answer that is not affirmative, the run declined.
C5_Witness ==
    /\ vcs.current_branch = DevelopB
    /\ \E i \in Confirmations : prompts[i].answer = <<"y", "e", "s">>
    /\ vcs.declined
    /\ pc = "Done"

\* A protected branch, confirmed, and the run pushed.
C5_ConfirmedAndPushed ==
    /\ vcs.current_branch = MainB
    /\ \E i \in Confirmations : prompts[i].answer = <<"Y">>
    /\ vcs.pushed

\* Another branch: pushed with no confirmation asked.
C5_NoConfirmationAsked == vcs.current_branch = FixB /\ vcs.pushed /\ Confirmations = {}

\* C6: a git operation that failed is the last one issued, and the run has
\* halted with a non-zero exit status.
C6_GitFailureIsFatal ==
    \A i \in DOMAIN gitOps :
        ~gitOps[i].ok => (i = Len(gitOps) /\ pc = "Exited" /\ exitStatus # 0)

\* The prompts of the Stage step and the `git add` operations, in order.
StagePrompts == SelectSeq(prompts, LAMBDA a : a.kind = "stage")

AddOps == SelectSeq(gitOps, LAMBDA o : o.cmd = "add")

StagedByAdd == {AddOps[i].arg : i \in {k \in DOMAIN AddOps : AddOps[k].ok}}

AcceptAllAnswers == {<<"a">>, <<"A">>}

QuitAnswers == {<<"q">>, <<"Q">>}

AcceptAnswers == {<<"y">>, <<"Y">>}

\* The files accepted one by one before the j-th prompt.
AcceptedBefore(j) ==
    {StagePrompts[k].about : k \in {i \in 1..(j - 1) : StagePrompts[i].answer \in AcceptAnswers}}

\* C11: the prompts go through the files in order; after accept-all no further
\* prompt is made and, when staging ends, every file from that one on is staged;
\* after quit no further prompt or add is made, staging has ended, and what was
\* staged before is still staged.
C11_AcceptAllAndQuit ==
    \A j \in DOMAIN StagePrompts :
        /\ StagePrompts[j].about = vcs.parsed_files[j]
        /\ StagePrompts[j].answer \in AcceptAllAnswers =>
              /\ j = Len(StagePrompts)
              /\ pc = "Commit" =>
                    \A k \in j..Len(vcs.parsed_files) :
                        /\ vcs.parsed_files[k] \in StagedByAdd
                        /\ vcs.parsed_files[k] \in vcs.index
        /\ StagePrompts[j].answer \in QuitAnswers =>
              /\ j = Len(StagePrompts)
              /\ pc # "StageLoop"
              /\ {AddOps[i].arg : i \in DOMAIN AddOps} = AcceptedBefore(j)
              /\ pc = "Commit" =>
                    vcs.index = StagedAtStart(repo.status) \cup AcceptedBefore(j)

\* Two files, accept-all on the first: both staged after one prompt.
C11_Witness ==
    /\ pc = "Commit"
    /\ Len(vcs.parsed_files) = 2
    /\ Len(StagePrompts) = 1
    /\ StagePrompts[1].answer = <<"a">>
    /\ Len(AddOps) = 2

\* Two files, the first accepted, quit on the second: one file staged.
C11_QuitKeepsStaged ==
    /\ pc = "Commit"
    /\ Len(vcs.parsed_files) = 2
    /\ Len(StagePrompts) = 2
    /\ StagePrompts[1].answer = <<"y">>
    /\ StagePrompts[2].answer = <<"q">>
    /\ vcs.parsed_files[1] \in vcs.index
    /\ vcs.parsed_files[2] \notin vcs.index

\* The staged-change set when the Commit step is reached: what the index held
\* before the run and what the Stage step added.
StagedAtCommit == StagedAtStart(repo.status) \cup StagedByAdd

CommitStepReached == GitOpIssued("diff --cached")

DiffSucceeded == \E i \in DOMAIN gitOps : gitOps[i].cmd = "diff --cached" /\ gitOps[i].ok

MessagePrompts == SelectSeq(prompts, LAMBDA a : a.kind = "message")

CommitsCreated == SelectSeq(gitOps, LAMBDA o : o.cmd = "commit" /\ o.ok)

\* A created commit carries the ticket, ': ' and the operator's text, and is
\* created only from a non-empty staged set.
CommitWellFormed ==
    \A i \in DOMAIN CommitsCreated :
        /\ StagedAtCommit # {}
        /\ Len(MessagePrompts) = 1
        /\ CommitsCreated[i].arg = vcs.jira_ticket \o <<":", " ">> \o MessagePrompts[1].answer
        /\ vcs.commits = <<CommitsCreated[i].arg>>

\* With nothing staged the step asks for nothing, commits nothing and the run
\* goes on to the drift check.
SkippedWhenNothingStaged ==
    (CommitStepReached /\ StagedAtCommit = {}) =>
        /\ ~GitOpIssued("commit")
        /\ MessagePrompts = <<>>
        /\ gitOps[Len(gitOps)].cmd = "diff --cached" => pc = "Drift"

\* With something staged, a run that got past the step has created the commit.
CommittedWhenStaged ==
    (StagedAtCommit # {} /\ (pc \in {"Drift", "Push"} \/ vcs.pushed)) =>
        Len(CommitsCreated) = 1

\* C12: a commit is created exactly when the staged-change set is not empty at
\* the Commit step, its message is ticket, separator, text, and with nothing
\* staged the step is skipped without error and the run goes on to the drift check.
C12_CommitIffStaged == CommitWellFormed /\ CommittedWhenStaged /\ SkippedWhenNothingStaged

\* The same on the runs in which `git diff --cached --quiet` itself succeeded.
C12_WhenDiffSucceeds == DiffSucceeded => C12_CommitIffStaged

\* Nothing staged, the diff succeeded, the step was skipped.
C12_SkippedRun ==
    /\ DiffSucceeded
    /\ StagedAtCommit = {}
    /\ vcs.parsed_files # <<>>
    /\ pc = "Drift"

\* Something staged and committed under the ticket.
C12_CommittedRun == pc = "Drift" /\ vcs.commits = <<<<"D", "1", ":", " ", "f", "i", "x">>>>

\* The protected branches the remote has, and those of them with commits that
\* HEAD does not have.
CheckedProtected == ProtectedNames \cap repo.remotes

Drifting == CheckedProtected \cap repo.ahead

DriftChecked == \E i \in DOMAIN gitOps : gitOps[i].cmd = "branch -r" /\ gitOps[i].ok

ReportWritten == vcs.report_file # <<>>

ReportSections == IF ReportWritten THEN vcs.report_file[1] ELSE <<>>

\* C13: after the drift check the report has been written exactly when some
\* checked protected branch has commits that HEAD lacks; it holds one section
\* for each such branch and no other; the run goes on either way.
C13_DriftReport ==
    DriftChecked =>
        /\ ReportWritten <=> Drifting # {}
        /\ {ReportSections[i].branch : i \in DOMAIN ReportSections} = Drifting
        /\ Len(ReportSections) = Cardinality(Drifting)
        /\ pc # "Exited" \/ gitOps[Len(gitOps)].cmd = "push"

\* The same on the runs in which every `git log` of a branch the remote has
\* succeeded.
C13_WhenLogsSucceed ==
    (\A i \in DOMAIN gitOps :
        (gitOps[i].cmd = "log" /\ gitOps[i].arg \in repo.remotes) => gitOps[i].ok)
    => C13_DriftReport

\* Two drifting branches, a report of two sections.
C13_TwoSections == Len(ReportSections) = 2 /\ Cardinality(Drifting) = 2

\* Remote branches without drift: nothing written, the run goes on.
C13_NoDriftNoFile == DriftChecked /\ CheckedProtected # {} /\ Drifting = {} /\ ~ReportWritten /\ pc = "Push"

\* ------------------------------------------ the scanner run, as the claims read it

ScannerRan == snykRun # <<>>

SecurityReportWritten == snykReport # <<>>

GateEvaluated == snykPc = "processed"

HaltedInScan ==
    /\ pc = "Exited"
    /\ exitStatus # 0
    /\ stages[Len(stages)] = "SecurityScan"

\* C14: after the scanner exits with 0 or 1 its output is parsed; after an exit
\* code of 2 or more the process has exited non-zero with the output not
\* parsed, the gate not evaluated and no security report written.
C14_ScannerExitCodes ==
    ScannerRan =>
        /\ snykRun[1].returncode \in {0, 1} =>
              /\ snykRun[1].parsing
              /\ snykRun[1].validJson => (GateEvaluated /\ SecurityReportWritten)
        /\ snykRun[1].returncode >= 2 =>
              /\ HaltedInScan
              /\ ~snykRun[1].parsing
              /\ ~GateEvaluated
              /\ ~SecurityReportWritten

\* Exit code 2 with output that would have parsed: halted, nothing written.
C14_Witness ==
    /\ ScannerRan
    /\ snykRun[1].returncode = 2
    /\ snykRun[1].validJson
    /\ HaltedInScan

\* Exit code 1 (vulnerabilities found): parsed and gated.
C14_FoundIsNotFatal ==
    /\ ScannerRan
    /\ snykRun[1].returncode = 1
    /\ GateEvaluated
    /\ quality_gate_failed

\* C15: after scanner output that is not valid JSON the process has exited
\* non-zero, no security report is written and no later stage has started.
C15_MalformedOutputHalts ==
    (ScannerRan /\ ~snykRun[1].validJson) =>
        /\ HaltedInScan
        /\ ~SecurityReportWritten
        /\ ~GateEvaluated

\* Exit code 0 with output that is not JSON: halted in the scan.
C15_Witness ==
    /\ ScannerRan
    /\ snykRun[1].returncode = 0
    /\ ~snykRun[1].validJson
    /\ "malformed_output" \in fatal
    /\ HaltedInScan

\* ------------------------------------------ the parsed rows, as the claims read it

Entries == Encountered(ScannedObjects)

\* The field of an entry, or the given sentinel when the entry has none.
FieldOr(entry, field, sentinel) ==
    IF field \in DOMAIN entry THEN entry[field] ELSE sentinel

Rule2Reasons == {r \in SeqToSet(failure_reasons) : r[1] = HighPrefix}

\* The row of every entry carries packageName, severity and version, or "N/A"
\* where the entry has none.
NamedFieldsDefault ==
    \A i \in DOMAIN Entries :
        /\ vulnerabilities_to_report[i].package = FieldOr(Entries[i], "packageName", "N/A")
        /\ vulnerabilities_to_report[i].severity = FieldOr(Entries[i], "severity", "N/A")
        /\ vulnerabilities_to_report[i].version = FieldOr(Entries[i], "version", "N/A")

\* An entry without exploit maturity is gated as "Not Available": it never
\* matches the rule on mature exploits.
ExploitDefault ==
    \A r \in Rule2Reasons :
        \E i \in DOMAIN Entries :
            /\ r = HighReason(vulnerabilities_to_report[i].package)
            /\ FieldOr(Entries[i], "exploit", "Not Available") = "Mature"

\* C16 as stated: a missing packageName, severity, version or url becomes "N/A",
\* a missing exploit maturity "Not Available", a present field is unchanged.
C16_DefaultsAsStated ==
    snykPc = "processed" =>
        /\ Len(vulnerabilities_to_report) = Len(Entries)
        /\ NamedFieldsDefault
        /\ ExploitDefault
        /\ \A i \in DOMAIN Entries :
              vulnerabilities_to_report[i].url = FieldOr(Entries[i], "url", "N/A")

\* C16: a missing packageName, severity or version becomes "N/A", a missing url
\* becomes "#", a missing exploit maturity "Not Available"; a present field is
\* unchanged.
C16_FieldDefaults ==
    snykPc = "processed" =>
        /\ Len(vulnerabilities_to_report) = Len(Entries)
        /\ NamedFieldsDefault
        /\ ExploitDefault
        /\ \A i \in DOMAIN Entries :
              vulnerabilities_to_report[i].url = FieldOr(Entries[i], "url", "#")

\* An entry with a package and nothing else: the row holds the sentinels.
C16_Witness ==
    /\ snykPc = "processed"
    /\ Len(Entries) = 1
    /\ DOMAIN Entries[1] = {"packageName"}
    /\ vulnerabilities_to_report[1] =
          [package |-> "libfoo", severity |-> "N/A", version |-> "N/A",
           fixed_in |-> NA, url |-> "#"]

\* An entry with every field: the row holds the entry's values.
C16_PresentUnchanged ==
    /\ snykPc = "processed"
    /\ Len(Entries) = 1
    /\ DOMAIN Entries[1] = {"packageName", "severity", "version", "fixedIn", "url", "exploit"}
    /\ vulnerabilities_to_report[1].url = "http://x"
    /\ vulnerabilities_to_report[1].version = "1.0"

FixedInMissingOrEmpty(entry) == "fixedIn" \notin DOMAIN entry \/ entry.fixedIn = <<>>

\* C17: the row's fixed versions are the "NA" sentinel exactly when the entry's
\* fixedIn is absent or empty; the rule on high severity fires for a package
\* exactly when one of its entries is high, has a mature exploit and fixed
\* versions other than the sentinel, so never on an absent or empty fixedIn.
C17_FixableIffNotSentinel ==
    snykPc = "processed" =>
        /\ Len(vulnerabilities_to_report) = Len(Entries)
        /\ \A i \in DOMAIN Entries :
              vulnerabilities_to_report[i].fixed_in = NA <=> FixedInMissingOrEmpty(Entries[i])
        /\ \A package \in {"N/A"} \cup ScanPackages :
              HighReason(package) \in SeqToSet(failure_reasons) <=>
                  \E i \in DOMAIN Entries :
                      /\ vulnerabilities_to_report[i].package = package
                      /\ vulnerabilities_to_report[i].severity = "high"
                      /\ vulnerabilities_to_report[i].fixed_in # NA
                      /\ ~FixedInMissingOrEmpty(Entries[i])
                      /\ FieldOr(Entries[i], "exploit", "Not Available") = "Mature"

\* High, mature, fixedIn an empty list: the sentinel, and the gate passes.
C17_Witness ==
    /\ snykPc = "processed"
    /\ Len(Entries) = 1
    /\ FieldOr(Entries[1], "severity", "N/A") = "high"
    /\ FieldOr(Entries[1], "exploit", "N/A") = "Mature"
    /\ FieldOr(Entries[1], "fixedIn", <<V11>>) = <<>>
    /\ vulnerabilities_to_report[1].fixed_in = NA
    /\ ~quality_gate_failed

\* High, mature, one fixed version: fixable, and the gate fails.
C17_FixableFails ==
    /\ snykPc = "processed"
    /\ Len(Entries) = 1
    /\ FieldOr(Entries[1], "severity", "N/A") = "high"
    /\ FieldOr(Entries[1], "exploit", "N/A") = "Mature"
    /\ FieldOr(Entries[1], "fixedIn", <<>>) = <<V11>>
    /\ quality_gate_failed

\* --------------------------------------- the dependency tree, as the claims read it

HasStartMarker(line) == Contains(line, start_marker)

InfoPrefixed(line) == Len(line) >= 7 /\ SubSeq(line, 1, 7) = InfoPrefix

\* The lines between the first and the last line of the output.
Between == SubSeq(mvnOutput, 2, Len(mvnOutput) - 1)

\* A line with the start marker, then lines prefixed '[INFO] ', then the end
\* marker.
MarkedOutput ==
    /\ Len(mvnOutput) >= 2
    /\ HasStartMarker(mvnOutput[1])
    /\ mvnOutput[Len(mvnOutput)] = end_marker
    /\ \A i \in DOMAIN Between : InfoPrefixed(Between[i])

\* The lines in between without their first 7 characters, joined by newlines.
BetweenStripped ==
    Join(Newline, [i \in DOMAIN Between |-> SubSeq(Between[i], 8, Len(Between[i]))])

NoStartMarker == \A i \in DOMAIN mvnOutput : ~HasStartMarker(mvnOutput[i])

ParsedTree == depTree[1].text

\* C18 as stated: for start marker, N prefixed lines, end marker, the output is
\* the N lines stripped and joined, whatever N and whatever the lines hold.
C18_AsStated ==
    pc = "Parsed" =>
        /\ MarkedOutput => ParsedTree = BetweenStripped
        /\ NoStartMarker => ParsedTree = CouldNotParse

\* C18: for start marker, N >= 1 prefixed lines of which none holds the start
\* marker or begins with the end marker, then the end marker, the output is the
\* N lines stripped of the prefix and joined by newlines in order; with no N
\* lines, and for every output without a start marker, it is the sentinel.
C18_TreeParser ==
    pc = "Parsed" =>
        /\ (MarkedOutput /\ \A i \in DOMAIN Between :
                                ~HasStartMarker(Between[i]) /\ ~StartsWith(Between[i], end_marker))
              => ParsedTree = (IF Between = <<>> THEN CouldNotParse ELSE BetweenStripped)
        /\ NoStartMarker => ParsedTree = CouldNotParse

\* Start marker, two lines of a tree, end marker: the two lines without prefix.
C18_Witness ==
    /\ pc = "Parsed"
    /\ mvnOutput = <<StartLine, TreeLineA, TreeLineB, end_marker>>
    /\ ParsedTree = <<"a", "\n", "+", "-", " ", "b">>

\* Lines of a tree but no start marker: the sentinel.
C18_NoMarkerSentinel ==
    /\ pc = "Parsed"
    /\ mvnOutput = <<TreeLineA, TreeLineB, end_marker>>
    /\ ParsedTree = CouldNotParse

\* --------------------------------- the static-analysis run, as the claims read it

\* The scanner succeeded and analyze() has come to its end, one way or another.
SonarEvaluated == sonarScanner = "success" /\ sonarPc \in {"done", "exited"}

CoverageUnavailable == jacoco.kind \in {"missing", "malformed", "nocounter"}

QueryFailed == api.kind # "ok"

\* The count the server gave for a metric, 0 when its answer has no such key.
MeasureOr0(metric) ==
    IF metric \in DOMAIN api.measures THEN api.measures[metric] ELSE 0

CoverageLinePrinted == \E i \in DOMAIN sonarPrinted : sonarPrinted[i].line = "coverage"

\* C19: with the coverage document missing, unparsable or without the counter,
\* the defect counts are still fetched and reported, coverage is reported as 0,
\* and the gate fails with the coverage line printed, also with zero defects.
C19_CoverageDefaultsToZero ==
    (SonarEvaluated /\ CoverageUnavailable /\ ~QueryFailed) =>
        /\ sonarReport # <<>>
        /\ sonarReport[1].coverage = 0
        /\ sonarReport[1].blocker = MeasureOr0("blocker_violations")
        /\ sonarReport[1].critical = MeasureOr0("critical_violations")
        /\ sonarVerdict = "FAILED"
        /\ CoverageLinePrinted
        /\ sonarExit = 1

\* No coverage document and zero defects: failed on the coverage line alone.
C19_Witness ==
    /\ SonarEvaluated
    /\ jacoco.kind = "missing"
    /\ api.kind = "ok"
    /\ MeasureOr0("blocker_violations") = 0
    /\ MeasureOr0("critical_violations") = 0
    /\ sonarVerdict = "FAILED"
    /\ Len(sonarPrinted) = 1
    /\ CoverageLinePrinted

\* C20: after a failed query of the server the process has exited non-zero with
\* no verdict and no report; after a successful one a verdict is reached, a
\* metric missing from the answer counted as 0.
C20_QueryFailureIsFatal ==
    SonarEvaluated =>
        /\ QueryFailed =>
              /\ sonarPc = "exited"
              /\ sonarExit # 0
              /\ sonarExit # NotExited
              /\ sonarVerdict = "none"
              /\ sonarReport = <<>>
        /\ ~QueryFailed =>
              /\ sonarVerdict \in {"PASSED", "FAILED"}
              /\ sonarReport[1].blocker = MeasureOr0("blocker_violations")
              /\ sonarReport[1].critical = MeasureOr0("critical_violations")

\* The query failed while coverage was full: exited, no verdict.
C20_Witness ==
    /\ SonarEvaluated
    /\ api.kind = "error"
    /\ jacoco.kind = "counter" /\ jacoco.covered = 5 /\ jacoco.missed = 0
    /\ sonarExit = 1
    /\ sonarVerdict = "none"

\* An answer without either metric and full coverage: both count 0, passed.
C20_MissingKeysPass ==
    /\ SonarEvaluated
    /\ api.kind = "ok"
    /\ DOMAIN api.measures = {}
    /\ jacoco.kind = "counter" /\ jacoco.covered = 5 /\ jacoco.missed = 0
    /\ sonarVerdict = "PASSED"
    /\ sonarExit = 0

\* ------------------------------------------ the reason lines of the static gate

\* The thresholds the run's inputs violate.
CoverageOfRun ==
    IF jacoco.kind = "counter" /\ jacoco.missed + jacoco.covered > 0
    THEN [num |-> jacoco.covered * 100, den |-> jacoco.missed + jacoco.covered]
    ELSE [num |-> 0, den |-> 1]

ViolatedThresholds ==
    {t \in {"blocker", "critical", "coverage"} :
        \/ t = "blocker" /\ MeasureOr0("blocker_violations") > 0
        \/ t = "critical" /\ MeasureOr0("critical_violations") > 0
        \/ t = "coverage" /\ CoverageOfRun.num < 80 * CoverageOfRun.den}

\* The thresholds a printed reason line names.
NamedBy(reason) ==
    IF reason.line = "bugs" THEN {"blocker", "critical"} ELSE {"coverage"}

DefectLinePrinted == \E i \in DOMAIN sonarPrinted : sonarPrinted[i].line = "bugs"

GateReached == SonarEvaluated /\ ~QueryFailed

\* C21 as stated: one reason line per violated threshold, three when all three
\* are violated, and a line names no threshold that the run did not violate.
C21_AsStated ==
    GateReached =>
        /\ Len(sonarPrinted) = Cardinality(ViolatedThresholds)
        /\ \A i \in DOMAIN sonarPrinted : NamedBy(sonarPrinted[i]) \subseteq ViolatedThresholds

\* C21: the two defect thresholds share one reason line, printed when either
\* count is above 0 and giving both counts; coverage has its own line, printed
\* when coverage is below 80; the defect line comes first, so a run reports at
\* most two lines, and the gate fails exactly when a line is printed.
C21_ReasonLines ==
    GateReached =>
        /\ DefectLinePrinted <=> ({"blocker", "critical"} \cap ViolatedThresholds # {})
        /\ CoverageLinePrinted <=> ("coverage" \in ViolatedThresholds)
        /\ Len(sonarPrinted) =
              (IF DefectLinePrinted THEN 1 ELSE 0) + (IF CoverageLinePrinted THEN 1 ELSE 0)
        /\ \A i \in DOMAIN sonarPrinted :
              /\ sonarPrinted[i].line = "bugs" =>
                    /\ i = 1
                    /\ sonarPrinted[i].blocker = MeasureOr0("blocker_violations")
                    /\ sonarPrinted[i].critical = MeasureOr0("critical_violations")
              /\ sonarPrinted[i].line = "coverage" => sonarPrinted[i].coverage = CoverageOfRun
        /\ (sonarVerdict = "FAILED") <=> (sonarPrinted # <<>>)

\* All three thresholds violated: two lines, the defect line first.
C21_Witness ==
    /\ GateReached
    /\ ViolatedThresholds = {"blocker", "critical", "coverage"}
    /\ Len(sonarPrinted) = 2
    /\ sonarPrinted[1].line = "bugs"
    /\ sonarPrinted[2].line = "coverage"

\* Only the blocker threshold violated: one line, which gives both counts.
C21_OnlyBlocker ==
    /\ GateReached
    /\ ViolatedThresholds = {"blocker"}
    /\ Len(sonarPrinted) = 1
    /\ sonarPrinted[1].line = "bugs"
    /\ sonarPrinted[1].critical = 0

\* ------------------------------------------------- the security report's rows

SecurityDocument == snykReport[1]

\* Row i of the report is entry i of the scan: its package, severity and version.
RowIsEntry(i) ==
    /\ SecurityDocument.rows[i].package = FieldOr(Entries[i], "packageName", "N/A")
    /\ SecurityDocument.rows[i].severity = Title(FieldOr(Entries[i], "severity", "N/A"))
    /\ SecurityDocument.rows[i].version = FieldOr(Entries[i], "version", "N/A")

MatchesNoRule(i) == ~Matches1(i) /\ ~Matches2(i)

\* C22: the security report has exactly one row per parsed vulnerability, in
\* scanner order, whether or not the vulnerability matches a gate rule; with no
\* vulnerability parsed it is the no-vulnerabilities document, without a table.
C22_OneRowPerVulnerability ==
    snykPc = "processed" =>
        /\ snykReport # <<>>
        /\ IF Len(Entries) = 0
           THEN /\ SecurityDocument.body = "congratulations"
                /\ SecurityDocument.rows = <<>>
           ELSE /\ SecurityDocument.body = "table"
                /\ SecurityDocument.found = Len(Entries)
                /\ Len(SecurityDocument.rows) = Len(Entries)
                /\ \A i \in DOMAIN Entries : RowIsEntry(i)

\* Two vulnerabilities of different packages, the first matching no rule and
\* the second critical: two rows in that order.
C22_Witness ==
    /\ snykPc = "processed"
    /\ Len(Entries) = 2
    /\ Len(SecurityDocument.rows) = 2
    /\ MatchesNoRule(1) /\ SecurityDocument.rows[1].severity = "Medium"
    /\ Matches1(2) /\ SecurityDocument.rows[2].severity = "Critical"
    /\ SecurityDocument.rows[1].package # SecurityDocument.rows[2].package

\* Objects with vulnerabilities but none of them ok-false: nothing parsed, the
\* no-vulnerabilities document.
C22_NothingParsed ==
    /\ snykPc = "processed"
    /\ \E i \in DOMAIN ScannedObjects : ArrayOf(ScannedObjects[i]) # <<>>
    /\ Len(Entries) = 0
    /\ SecurityDocument.body = "congratulations"

\* Only vulnerabilities that match no rule: the gate passes and the rows are there.
C22_PassedWithRows ==
    /\ snykPc = "processed"
    /\ ~quality_gate_failed
    /\ Len(SecurityDocument.rows) = 2

\* ------------------------------------------- reports are written before the verdict acts

\* The security gate's outcome has been acted on: the banner is printed.
SecurityVerdictActed == snykPc = "processed"

\* The static gate's outcome has been acted on: the banner is printed and the
\* process has exited 1 or returned.
StaticVerdictActed == sonarVerdict # "none"

\* C23: whenever a gate's outcome has been acted on, that gate's report of this
\* run is on disk, for a passing and for a failing verdict alike: the security
\* report with the run's rows, the static-analysis report with the run's status.
C23_ReportBeforeVerdict ==
    /\ SecurityVerdictActed =>
          /\ snykReport # <<>>
          /\ SecurityDocument.found = Len(vulnerabilities_to_report)
    /\ StaticVerdictActed =>
          /\ sonarReport # <<>>
          /\ sonarReport[1].status = sonarVerdict
    /\ (printed_reasons # <<>> => snykReport # <<>>)
    /\ (sonarPrinted # <<>> => sonarReport # <<>>)

\* The security gate failed and the report of the run is written.
C23_Witness ==
    /\ SecurityVerdictActed
    /\ quality_gate_failed
    /\ printed_reasons # <<>>
    /\ snykReport # <<>>
    /\ SecurityDocument.body = "table"

\* The static gate failed, the process exited 1, and the FAILED report is written.
C23_StaticFailedWithReport ==
    /\ StaticVerdictActed
    /\ sonarVerdict = "FAILED"
    /\ sonarExit = 1
    /\ sonarReport # <<>>
    /\ sonarReport[1].status = "FAILED"

\* ------------------------------------------------ report files across runs

RunCompleted == pc = "Done"

\* What this run's drift check found, as the report it writes: nothing when no
\* checked branch listed commits.
ThisRunsReport == vcs.report_file

\* C24 as stated, for the drift-warning report: once the run has completed the
\* file on disk is what this run's drift check determined, the sections of this
\* run or no report, and holds nothing that an earlier run wrote.
C24_ReportsOfThisRunOnly ==
    RunCompleted => WarningReportOnDisk = ThisRunsReport

\* A report this run wrote holds this run's sections and nothing of the earlier
\* report, also when there was one.
C24_WrittenReportReplaced ==
    ReportWritten =>
        /\ WarningReportOnDisk = <<ReportSections>>
        /\ \A i \in DOMAIN ReportSections : ReportSections[i].log = <<"commits">>

\* An earlier run left a warning, this run found no drift and pushed: the
\* earlier warning is still on disk.
C24_EarlierWarningKept ==
    /\ RunCompleted
    /\ vcs.pushed
    /\ Drifting = {}
    /\ WarningReportOnDisk = <<EarlierReport>>

\* An earlier run left a warning and this run wrote its own over it.
C24_EarlierWarningReplaced ==
    /\ RunCompleted
    /\ repo.earlier_report
    /\ ReportWritten
    /\ WarningReportOnDisk # <<EarlierReport>>

\* ------------------------------------------------- rendering the same twice

\* A step renders the same list of vulnerabilities as the one last rendered.
SameVulnerabilities ==
    /\ snykPc = "processed" /\ snykPc' = "processed"
    /\ vulnerabilities_to_report' = vulnerabilities_to_report

\* A step renders the same verdict, defect counts and coverage as last rendered.
SameMetricsAndVerdict ==
    /\ sonarVerdict # "none" /\ sonarVerdict' = sonarVerdict
    /\ api' = api
    /\ SameCoverage(ParseJacocoReport(jacoco'), ParseJacocoReport(jacoco))

C25_SameCoverageOtherCounters ==
    /\ sonarVerdict = "FAILED"
    /\ jacoco.kind = "counter" /\ jacoco.covered = 1 /\ jacoco.missed = 1
    /\ sonarReport[1].coverage = 5000

\* ------------------------------------------- where the tree parser starts and stops

WarningPrefixed(line) == Len(line) >= 9 /\ SubSeq(line, 1, 9) = WarningPrefix

\* The index of the first line with the start marker, 0 when there is none.
FirstStart ==
    IF NoStartMarker THEN 0
    ELSE CHOOSE i \in DOMAIN mvnOutput :
            /\ HasStartMarker(mvnOutput[i])
            /\ \A j \in 1..(i - 1) : ~HasStartMarker(mvnOutput[j])

\* A line that ends the capture: one that begins with the end-marker rule, or
\* one with neither prefix that is not the build-success banner.
IsTerminator(line) ==
    \/ StartsWith(line, end_marker)
    \/ ~InfoPrefixed(line) /\ ~WarningPrefixed(line) /\ ~StartsWith(line, BuildSuccess)

\* The index of the first terminator after the first start marker, one past the
\* last line when there is none.
FirstStop ==
    IF \E j \in (FirstStart + 1)..Len(mvnOutput) : IsTerminator(mvnOutput[j])
    THEN CHOOSE j \in (FirstStart + 1)..Len(mvnOutput) :
            /\ IsTerminator(mvnOutput[j])
            /\ \A k \in (FirstStart + 1)..(j - 1) : ~IsTerminator(mvnOutput[k])
    ELSE Len(mvnOutput) + 1

\* The lines after the first start marker and before the first terminator.
CaptureRegion ==
    IF FirstStart = 0 THEN <<>> ELSE SubSeq(mvnOutput, FirstStart + 1, FirstStop - 1)

\* A captured line as it appears: without the 7 characters of '[INFO] ', or as
\* it is for a '[WARNING]' line.
Shown(line) == IF InfoPrefixed(line) THEN SubSeq(line, 8, Len(line)) ELSE line

\* The text returned for the captured lines: joined by newlines, the sentinel
\* when there are none.
TextOf(lines) ==
    IF lines = <<>> THEN CouldNotParse
    ELSE Join(Newline, [i \in DOMAIN lines |-> Shown(lines[i])])

C26_StopsAtPlainLine ==
    /\ pc = "Parsed"
    /\ mvnOutput = <<StartLine, TreeLineA, PlainLine, TreeLineB>>
    /\ ParsedTree = <<"a">>

\* The end-marker rule ends the capture just the same.
C26_StopsAtEndMarker ==
    /\ pc = "Parsed"
    /\ mvnOutput = <<StartLine, TreeLineA, end_marker, WarningLine>>
    /\ ParsedTree = <<"a">>

\* A second start marker while capturing is skipped and the capture goes on.
C26_SecondMarkerSkipped ==
    /\ pc = "Parsed"
    /\ mvnOutput = <<StartLine, TreeLineA, StartLine, TreeLineB>>
    /\ ParsedTree = <<"a">> \o Newline \o <<"+", "-", " ", "b">>

\* ------------------------------------------------ which branches are queried

\* `git log HEAD..origin/<b>` has been run.
DriftQueried(b) == \E i \in DOMAIN gitOps : gitOps[i].cmd = "log" /\ gitOps[i].arg = b

\* C27: after the drift check, drift has been queried for a protected branch
\* name exactly when the remote has a branch of that name.
C27_QueriedIffRemoteExists ==
    DriftChecked => \A b \in ProtectedNames : DriftQueried(b) <=> b \in repo.remotes

\* Every protected name the remote has is queried, once, and a name is queried
\* only when 'origin/<name>' occurs in the name of some remote branch.
C27_QueriedWhenListed ==
    DriftChecked =>
        /\ \A b \in ProtectedNames \cap repo.remotes : DriftQueried(b)
        /\ \A b \in ProtectedNames :
              DriftQueried(b) => \E r \in repo.remotes : Contains(Origin \o r, Origin \o b)
        /\ \A i, j \in DOMAIN gitOps :
              (gitOps[i].cmd = "log" /\ gitOps[j].cmd = "log" /\ gitOps[i].arg = gitOps[j].arg)
                  => i = j

\* The remote has develop and no dev: origin/dev is queried all the same, and
\* the query fails.
C27_DevQueriedForDevelop ==
    /\ DriftChecked
    /\ repo.remotes = {DevelopB}
    /\ \E i \in DOMAIN gitOps : gitOps[i].cmd = "log" /\ gitOps[i].arg = DevB /\ ~gitOps[i].ok

\* The remote has main only: only origin/main is queried.
C27_OnlyMainQueried ==
    /\ DriftChecked
    /\ repo.remotes = {MainB}
    /\ \A b \in ProtectedNames : DriftQueried(b) <=> b = MainB

\* ------------------------------------------------ the paths offered for staging

StatusParsed == vcs.parsed_files # <<>>

\* The entry is a rename, 'XY old -> new'.
IsRename(line) == FindSub(line, Arrow) # 0

\* Y of the entry 'XY path' is a space: the change is fully staged.
FullyStaged(line) == line[2] = " "

\* C28: once the status has been parsed, the paths offered for staging are the
\* paths of the entries, one for each entry in order, whatever the two status
\* codes are; for a renamed entry the new path.
C28_OfferedPathIsEntryPath ==
    StatusParsed =>
        vcs.parsed_files = [i \in DOMAIN repo.status |-> EntryPath(repo.status[i])]

\* The same for the entries whose Y is not a space, and for renamed entries.
C28_PathUnlessFullyStaged ==
    StatusParsed =>
        /\ Len(vcs.parsed_files) = Len(repo.status)
        /\ \A i \in DOMAIN repo.status :
              (~FullyStaged(repo.status[i]) \/ IsRename(repo.status[i]))
                  => vcs.parsed_files[i] = EntryPath(repo.status[i])

\* 'M  b', modified and fully staged: the path offered is ' b', with the space.
C28_FullyStagedGetsSpace ==
    /\ StatusParsed
    /\ repo.status = <<<<"M", " ", " ", "b">>>>
    /\ vcs.parsed_files = <<<<" ", "b">>>>

\* The add of that path fails and the run ends with exit status 1.
C28_FullyStagedAddFails ==
    /\ repo.status = <<<<"M", " ", " ", "b">>>>
    /\ pc = "Exited" /\ exitStatus = 1
    /\ gitOps # <<>>
    /\ gitOps[Len(gitOps)] = GitOp("add", <<" ", "b">>, FALSE)

\* 'R  a -> d' after '?? c': the paths offered are c and the new path d.
C28_RenameGivesNewPath ==
    /\ StatusParsed
    /\ repo.status = <<<<"?", "?", " ", "c">>, <<"R", " ", " ", "a", " ", "-", ">", " ", "d">>>>
    /\ vcs.parsed_files = <<<<"c">>, <<"d">>>>

\* ------------------------------------------------------ one stage at a time

StageOrder == <<"Build", "SecurityScan", "DependencyAudit", "Remediation", "VcsSync">>

\* The number of stages that have started when main() stands at a step.
StartedAt(step) ==
    CASE step = "Build" -> 0
      [] step = "Snyk" -> 1
      [] step = "DepAudit" -> 2
      [] step = "Remediation" -> 3
      [] step = "GitInit" -> 4
      [] OTHER -> 5

\* The external tools that have been run and have returned: mvn for the build,
\* the scanner, mvn for the tree, git.
BuildToolRan == buildLog # <<>>

TreeToolRan == depTree # <<>>

GitRan == gitOps # <<>>

\* C29: the stages started are the first stages of Build, SecurityScan,
\* DependencyAudit, Remediation, VcsSync in that order, each once; while main()
\* runs, the stage to start next is the one after the last started, so every
\* stage started before has returned; and a tool is run only after the tool of
\* the stage before has returned.
C29_OneStageAtATime ==
    /\ Len(stages) <= Len(StageOrder)
    /\ \A i \in DOMAIN stages : stages[i] = StageOrder[i]
    /\ pc \notin {"Exited", "Done"} => Len(stages) = StartedAt(pc)
    /\ pc = "Done" => Len(stages) = Len(StageOrder)
    /\ ScannerRan => BuildToolRan /\ Len(stages) >= 2
    /\ TreeToolRan => ScannerRan /\ Len(stages) >= 3
    /\ GitRan => TreeToolRan /\ Len(stages) = 5

\* A run through all five stages to the push.
C29_Witness ==
    /\ pc = "Done"
    /\ stages = StageOrder
    /\ BuildToolRan /\ ScannerRan /\ TreeToolRan /\ GitRan
    /\ vcs.pushed

\* A run that ended in the second stage: no later stage has started.
C29_EndedInScan ==
    /\ pc = "Exited"
    /\ stages = <<"Build", "SecurityScan">>
    /\ ~TreeToolRan /\ ~GitRan

\* ---------------------------------------------------------- a failed build

\* The process has ended non-zero in the build: no other stage has started, and
\* no scan, tree, prompt or git command has been run.
EndedInBuild ==
    /\ pc = "Exited"
    /\ exitStatus # 0 /\ exitStatus # NotExited
    /\ stages = <<"Build">>
    /\ ~ScannerRan /\ ~GateEvaluated /\ ~SecurityReportWritten
    /\ ~TreeToolRan
    /\ ~GitRan /\ prompts = <<>> /\ ~vcs.pushed

BuildToolMissing == "mvn" \notin tools

BuildExitedNonZero == buildLog # <<>> /\ buildLog[1] # 0

\* C30: once the build stage has started without the build tool, or the build
\* tool has exited non-zero, the process has ended non-zero with nothing but
\* the build stage started; the build log is written in the second case, not in
\* the first; and a later stage starts only after a build that exited 0.
C30_FailedBuildEnds ==
    /\ (StageStarted("Build") /\ BuildToolMissing) => (EndedInBuild /\ buildLog = <<>>)
    /\ BuildExitedNonZero => EndedInBuild
    /\ Len(stages) >= 2 => (buildLog = <<0>>)

\* The build tool exited 1: the log is written and the process has ended.
C30_Witness ==
    /\ buildLog = <<1>>
    /\ EndedInBuild
    /\ "Build" \in reported

\* The build tool is missing: ended without a log.
C30_MissingTool ==
    /\ BuildToolMissing
    /\ EndedInBuild
    /\ buildLog = <<>>

\* ------------------------------------------------ the order of the VCS steps

\* The step of run_full_process each git command belongs to: 0 is the
\* constructor, 1 BranchCheck (no git command), 2 Stage, 3 Commit, 4 DriftCheck,
\* 5 Push.
StepOf(cmd) ==
    CASE cmd = "rev-parse" -> 0
      [] cmd \in {"status", "add"} -> 2
      [] cmd \in {"diff --cached", "commit"} -> 3
      [] cmd \in {"fetch", "branch -r", "log"} -> 4
      [] cmd = "push" -> 5

\* The command each step opens with.
FirstCommandOf(step) ==
    CASE step = 2 -> "status" [] step = 3 -> "diff --cached" [] step = 4 -> "fetch"
      [] step = 5 -> "push"

TimesIssued(cmd) == Len(SelectSeq(gitOps, LAMBDA o : o.cmd = cmd))

\* The step the run is at, by the position of main().
StepAt ==
    CASE pc = "BranchCheck" -> 1
      [] pc \in {"Stage", "StageLoop"} -> 2
      [] pc = "Commit" -> 3
      [] pc = "Drift" -> 4
      [] pc = "Push" -> 5
      [] OTHER -> 6

PassedBranchCheck == pc = "Stage"

PushAttempted == GitOpIssued("push")

\* A git failure that ended the process.
FatalGitFailure ==
    /\ pc = "Exited"
    /\ exitStatus # 0
    /\ "command_failed" \in fatal
    /\ gitOps # <<>>
    /\ ~gitOps[Len(gitOps)].ok

\* The git commands run so far go through the steps in the order Stage, Commit,
\* DriftCheck, Push: never back to an earlier step, every step opened once and
\* with its first command, no step opened before the one ahead of it, none
\* opened before the branch check is passed, and none left to open behind the
\* position of main(). A run that has ended without declining and without a
\* fatal failure has attempted the push.
C31_StepsInOrder ==
    /\ \A i, j \in DOMAIN gitOps : i < j => StepOf(gitOps[i].cmd) <= StepOf(gitOps[j].cmd)
    /\ \A step \in 2..5 :
          /\ TimesIssued(FirstCommandOf(step)) <= 1
          /\ \A i \in DOMAIN gitOps :
                StepOf(gitOps[i].cmd) = step =>
                    \E k \in 1..i : gitOps[k].cmd = FirstCommandOf(step)
          /\ (step > 2 /\ GitOpIssued(FirstCommandOf(step))) =>
                GitOpIssued(FirstCommandOf(step - 1))
          /\ GitOpIssued(FirstCommandOf(step)) => StepAt >= step
          /\ (StepAt \in 3..5 /\ step < StepAt) => GitOpIssued(FirstCommandOf(step))
    /\ (GitOpIssued("status") /\ InList(vcs.current_branch, protected_branches)) =>
          \E i \in DOMAIN prompts :
              prompts[i].kind = "confirm" /\ Confirmed(prompts[i].answer)
    /\ (pc = "Done" /\ ~vcs.declined) => PushAttempted
    /\ PushAttempted => (GitOpIssued("fetch") /\ GitOpIssued("diff --cached"))

\* C31: the steps of the VCS stage run in the order BranchCheck, Stage, Commit,
\* DriftCheck, Push, and every run that passes BranchCheck goes on to attempt the
\* push unless a git failure ends the process first; a run without a commit and
\* a run that wrote a drift report attempt it like any other.
C31_PushAlwaysAttempted ==
    /\ []C31_StepsInOrder
    /\ PassedBranchCheck ~> (PushAttempted \/ FatalGitFailure)

\* A run that created no commit and wrote a drift report has pushed and ended
\* with status 0.
C31_Witness ==
    /\ pc = "Done"
    /\ exitStatus = 0
    /\ vcs.pushed
    /\ vcs.commits = <<>>
    /\ ReportWritten
    /\ GitOpIssued("log")

\* A run that created a commit and found no drift has pushed.
C31_PushAfterCommit ==
    /\ pc = "Done"
    /\ vcs.pushed
    /\ Len(vcs.commits) = 1
    /\ ~ReportWritten

\* ------------------------------------------------- the loop of the Stage step

\* The Stage step has run to its end: the loop is left and create_commit is
\* next or has begun.
StageOver == StatusParsed /\ (pc = "Commit" \/ GitOpIssued("diff --cached"))

\* The arguments of the `git add` commands run, in order.
AddArgs == [i \in DOMAIN AddOps |-> AddOps[i].arg]

\* The prompt that was answered with accept-all, 0 when there is none.
AcceptAllAt ==
    IF \E j \in DOMAIN StagePrompts : StagePrompts[j].answer \in AcceptAllAnswers
    THEN CHOOSE j \in DOMAIN StagePrompts : StagePrompts[j].answer \in AcceptAllAnswers
    ELSE 0

QuitAt ==
    IF \E j \in DOMAIN StagePrompts : StagePrompts[j].answer \in QuitAnswers
    THEN CHOOSE j \in DOMAIN StagePrompts : StagePrompts[j].answer \in QuitAnswers
    ELSE 0

\* The k-th offered path is one the answers given so far call an add for: it
\* was answered y or a, or accept-all was active when its turn came.
AddCalledFor(k) ==
    \/ k \in DOMAIN StagePrompts
         /\ StagePrompts[k].answer \in AcceptAnswers \cup AcceptAllAnswers
    \/ AcceptAllAt > 0 /\ k > AcceptAllAt

\* The offered paths an add is called for, in the order of the status output.
RECURSIVE CalledFrom(_)
CalledFrom(k) ==
    IF k > Len(vcs.parsed_files) THEN <<>>
    ELSE (IF AddCalledFor(k) THEN <<vcs.parsed_files[k]>> ELSE <<>>) \o CalledFrom(k + 1)

IsPrefixOf(s, t) == Len(s) <= Len(t) /\ SubSeq(t, 1, Len(s)) = s

\* The entries whose turn has come: those prompted for, and those added
\* without a prompt under accept-all.
Considered ==
    Len(StagePrompts)
    + (IF AcceptAllAt > 0 THEN Len(AddOps) - Len(CalledFrom(1)) + Len(CalledFrom(AcceptAllAt + 1))
       ELSE 0)

\* The answers that are neither y, a nor q in either case.
Declined(answer) ==
    answer \notin AcceptAnswers \cup AcceptAllAnswers \cup QuitAnswers

\* C32 as stated: when the Stage step is over, every changed path of the
\* status output has had its turn, once and in status order.
C32_AsStated ==
    StageOver =>
        /\ Considered = Len(repo.status)
        /\ \A k \in DOMAIN repo.status : vcs.parsed_files[k] = EntryPath(repo.status[k])

\* C32: the loop offers one path per status entry, in status order; the j-th
\* prompt is about the j-th of them, so none is offered twice or out of turn.
\* The adds run are, in order, those the answers call for (y or a for the path,
\* or accept-all active), each path at most once; all of them once the step is
\* over. A path answered with n, or with anything that is not y, a or q, has no
\* add run for it and is not put in the index by the run. When the step is over
\* every entry has had its turn unless the operator quit, and after a quit the
\* entries behind it have had none.
C32_AddIffAccepted ==
    StatusParsed =>
        /\ Len(vcs.parsed_files) = Len(repo.status)
        /\ vcs.parsed_files = ParseStatus(repo.status)
        /\ \A j \in DOMAIN StagePrompts : StagePrompts[j].about = vcs.parsed_files[j]
        /\ Len(StagePrompts) <= Len(vcs.parsed_files)
        /\ IsPrefixOf(AddArgs, CalledFrom(1))
        /\ \A i, j \in DOMAIN AddArgs : AddArgs[i] = AddArgs[j] => i = j
        /\ AcceptAllAt = 0 => AddArgs = CalledFrom(1)
        /\ StageOver => AddArgs = CalledFrom(1)
        /\ \A j \in DOMAIN StagePrompts :
              Declined(StagePrompts[j].answer) =>
                  /\ \A i \in DOMAIN AddArgs : AddArgs[i] # StagePrompts[j].about
                  /\ StagePrompts[j].about \notin StagedByAdd
                  /\ StagePrompts[j].about \in vcs.index =>
                        StagePrompts[j].about \in StagedAtStart(repo.status)
        /\ StageOver =>
              IF QuitAt = 0 THEN Considered = Len(vcs.parsed_files)
              ELSE Considered = QuitAt /\ QuitAt = Len(StagePrompts)

\* Two entries, the first answered n and the second y: one add, for the second.
C32_Witness ==
    /\ pc = "Commit"
    /\ Len(vcs.parsed_files) = 2
    /\ Len(StagePrompts) = 2
    /\ StagePrompts[1].answer = <<"n">>
    /\ StagePrompts[2].answer = <<"y">>
    /\ AddArgs = <<vcs.parsed_files[2]>>
    /\ vcs.index = {vcs.parsed_files[2]}

\* An answer that is no choice of the prompt ('yes') stages nothing.
C32_UnrecognisedAnswer ==
    /\ pc = "Commit"
    /\ Len(vcs.parsed_files) = 1
    /\ StagePrompts = <<Asked("stage", vcs.parsed_files[1], <<"y", "e", "s">>)>>
    /\ AddArgs = <<>>
    /\ vcs.index = {}

\* Two entries, quit at the first: the step is over and the second changed
\* path was never offered.
C32_QuitSkipsTheRest ==
    /\ pc = "Commit"
    /\ Len(repo.status) = 2
    /\ Len(StagePrompts) = 1
    /\ StagePrompts[1].answer = <<"q">>
    /\ Considered = 1
    /\ AddArgs = <<>>

\* ------------------------------------------------------ the ticket identifier

\* The answers given when the ticket is asked for.
TicketAnswers == SelectSeq(prompts, LAMBDA a : a.kind = "ticket")

EmptyTicketGiven == TicketAnswers # <<>> /\ TicketAnswers[1].answer = <<>>

\* The constructor has gone past the test of the ticket: it has made the report
\* directory or run a git command, or a later step has put a question.
Constructed ==
    \/ vcs.report_dir
    \/ GitRan
    \/ vcs.jira_ticket # <<>>
    \/ Len(prompts) > 1

\* C33: when the ticket is given empty, the process has exited with a non-zero
\* status, reporting the missing ticket, with no git command run, the report
\* directory not made by the constructor and no other question put; and a
\* GitChecker that is constructed holds the ticket that was given, not empty.
C33_NoTicketNoStage ==
    /\ Len(TicketAnswers) <= 1
    /\ EmptyTicketGiven =>
          /\ pc = "Exited"
          /\ exitStatus # NotExited /\ exitStatus # 0
          /\ "no_ticket" \in fatal
          /\ gitOps = <<>>
          /\ ~vcs.report_dir
          /\ vcs.jira_ticket = <<>>
          /\ Len(prompts) = 1
          /\ ~vcs.pushed /\ vcs.commits = <<>>
    /\ Constructed =>
          /\ TicketAnswers # <<>>
          /\ TicketAnswers[1].answer # <<>>
          /\ vcs.jira_ticket = TicketAnswers[1].answer
          /\ vcs.report_dir

\* The ticket was given empty: exited 1 with nothing done.
C33_Witness ==
    /\ EmptyTicketGiven
    /\ pc = "Exited"
    /\ exitStatus = 1
    /\ gitOps = <<>>
    /\ ~vcs.report_dir

\* A ticket of one space is not empty: the run goes on and commits under it.
C33_BlankTicketAccepted ==
    /\ vcs.jira_ticket = <<" ">>
    /\ vcs.report_dir
    /\ Len(vcs.commits) = 1
    /\ vcs.commits[1] = <<" ", ":", " ", "f", "i", "x">>

====
